---- MODULE Spec2Model ----
(***************************************************************************)
(* Model of the GumJS V8 value bridge (bindings/gumjs/gumv8value.cpp):     *)
(* the format-driven argument parser with its transactional parse scope,   *)
(* the native/kernel resource registry driven by weak notifications, and   *)
(* the CPU-context snapshot lifecycle, and the marshalling of native       *)
(* errors and of scalar values.                                            *)
(***************************************************************************)
EXTENDS Integers, Sequences, FiniteSets, TLC

VARIABLES
  \* --- one call of _gum_v8_args_parse ---
  format,        \* const gchar * format, a sequence of characters
  tags,          \* the tag tokens format was assembled from (what the caller meant)
  info,          \* args->info: the argument values of the call
  t,             \* index of *t in format (1-based)
  arg_index,     \* int arg_index
  is_required,   \* gboolean is_required
  slots,         \* the va_list output slots consumed so far, in order
  scope,         \* GumV8ArgsParseScope scope
  heap,          \* native allocations: strings, GArrays, GBytes, GumMatchPatterns
  exception,     \* the isolate's pending exception message ("" when none)
  throws,        \* number of ThrowException calls made during the call
  parse_pc,      \* "loop" while scanning, "done" after the call returned
  parse_result,  \* the gboolean returned (meaningful when parse_pc = "done")
  stop_tag,      \* number of tags fully processed when the call returned
  \* --- native / kernel resource registry ---
  resources,     \* every GumV8NativeResource / GumV8KernelResource ever created
  native_resources,  \* core->native_resources (set of record ids)
  kernel_resources,  \* core->kernel_resources (set of record ids)
  external_memory,   \* what AdjustAmountOfExternalAllocatedMemory has summed up
  notify_log,    \* the destructor calls made: sequence of <<record id, address>>
  \* --- CPU-context snapshots ---
  native_ctx,    \* the engine-owned GumCpuContext structures (details->context)
  ctx_heap,      \* g_slice copies of GumCpuContext made by the bridge
  objects,       \* CpuContext script objects: internal fields 0 and 1, reachability
  globals,       \* Global<Object> handles created for _gum_v8_cpu_context_free_later
  wrappers,      \* GumCpuContextWrapper allocations
  \* --- native errors and scripting exceptions ---
  error,         \* the caller's GError * (0 is NULL, otherwise an id in gerrors)
  gerrors,       \* every GError allocated: its message and how often it was freed
  thrown,        \* the values given to isolate->ThrowException, in order
  error_calls,   \* the calls of _gum_v8_maybe_throw that returned
  error_pc,      \* "run", or "fault" once a read outside an allocation faulted
  \* --- one call of a value conversion ---
  input,         \* the Local<Value> the conversion is given
  origin,        \* how input came to be: from script, or made from a native word
  conv,          \* the conversion called and what it yielded
  \* --- the static-buffer allocator ---
  static_buffer, \* the address of static_buffer[0]
  static_offset, \* size_t static_offset
  returned,      \* the blocks returned since the last create or destroy
  mspace_call    \* the last call made and what it returned

parseVars == <<format, tags, info, t, arg_index, is_required, slots, scope, heap,
               exception, throws, parse_pc, parse_result, stop_tag>>
resVars == <<resources, native_resources, kernel_resources, external_memory,
             notify_log>>
cpuVars == <<native_ctx, ctx_heap, objects, globals, wrappers>>
errVars == <<error, gerrors, thrown, error_calls, error_pc>>
convVars == <<input, origin, conv>>
mspaceVars == <<static_buffer, static_offset, returned, mspace_call>>
valueVars == <<errVars, convVars, mspaceVars>>
vars == <<parseVars, resVars, cpuVars, valueVars>>

----------------------------------------------------------------------------
(* Bounds of the model *)

\* number of tags in a format string
MaxTags == 2
\* width, in bits, standing for the 32 bits of gint / guint
IntBits == 4
\* width, in bits, standing for the 64 bits of gint64 / guint64 / gpointer
WordBits == 6
\* width, in bits, standing for the 8 bits of guint8
ByteBits == 2
\* number of resource records registered
MaxResources == 2
\* largest byte size a resource is registered with
MaxSize == 2
\* number of CpuContext script objects created
MaxObjects == 1
\* number of Global handles given to _gum_v8_cpu_context_free_later
MaxGlobals == 2

----------------------------------------------------------------------------
(* Scripting-engine values (v8::Local<v8::Value>) *)

NoProps == [x \in {} |-> 0]

\* k: the kind of value; n: numeric payload (integer part of a number, the
\* value of a BigInt or boxed integer, an address, an object id); d: 1 when a
\* number has the fractional part .5; s: the characters of a string; p: the
\* properties of an object; e: the elements of an array or the bytes of a buffer
JSValue(k, n, d, s, p, e) == [k |-> k, n |-> n, d |-> d, s |-> s, p |-> p, e |-> e]

Undefined == JSValue("undefined", 0, 0, <<>>, NoProps, <<>>)
Null == JSValue("null", 0, 0, <<>>, NoProps, <<>>)
EmptyLocal == JSValue("empty", 0, 0, <<>>, NoProps, <<>>)
Number(n) == JSValue("number", n, 0, <<>>, NoProps, <<>>)
Fraction(n) == JSValue("number", n, 1, <<>>, NoProps, <<>>)
BigInt(n) == JSValue("bigint", n, 0, <<>>, NoProps, <<>>)
Boolean(b) == JSValue("boolean", IF b THEN 1 ELSE 0, 0, <<>>, NoProps, <<>>)
String(s) == JSValue("string", 0, 0, s, NoProps, <<>>)
Function(id) == JSValue("function", id, 0, <<>>, NoProps, <<>>)
External(n) == JSValue("external", n, 0, <<>>, NoProps, <<>>)
Object(p) == JSValue("object", 0, 0, <<>>, p, <<>>)
Array(e) == JSValue("array", 0, 0, <<>>, NoProps, e)
ArrayBuffer(e) == JSValue("arraybuffer", 0, 0, <<>>, NoProps, e)
ArrayBufferView(e) == JSValue("arraybufferview", 0, 0, <<>>, NoProps, e)
NativePointerValue(n) == JSValue("NativePointer", n, 0, <<>>, NoProps, <<>>)
Int64Value(n) == JSValue("Int64", n, 0, <<>>, NoProps, <<>>)
UInt64Value(n) == JSValue("UInt64", n, 0, <<>>, NoProps, <<>>)
CpuContextValue(n) == JSValue("CpuContext", n, 0, <<>>, NoProps, <<>>)
MatchPatternValue(id) == JSValue("MatchPattern", id, 0, <<>>, NoProps, <<>>)
\* a property whose getter throws: Get () returns an empty MaybeLocal
ThrowingGetter == JSValue("getter-throws", 0, 0, <<>>, NoProps, <<>>)

IsUndefined(v) == v.k = "undefined"
IsNull(v) == v.k = "null"
IsNumber(v) == v.k = "number"
IsBigInt(v) == v.k = "bigint"
IsBoolean(v) == v.k = "boolean"
IsString(v) == v.k = "string"
IsFunction(v) == v.k = "function"
IsExternal(v) == v.k = "external"
IsArray(v) == v.k = "array"
IsArrayBuffer(v) == v.k = "arraybuffer"
IsArrayBufferView(v) == v.k = "arraybufferview"
IsObject(v) == v.k \in {"object", "array", "arraybuffer", "arraybufferview",
                        "function", "NativePointer", "Int64", "UInt64",
                        "CpuContext", "MatchPattern", "error"}
\* FunctionTemplate::HasInstance for the bridge's own classes
HasInstance(class, v) == v.k = class

\* Object::Get: the value of a property, Undefined when the object has none
GetProperty(obj, key) == IF key \in DOMAIN obj.p THEN obj.p[key] ELSE Undefined

handle_key == <<"h", "a", "n", "d", "l", "e">>
base_key == <<"b", "a", "s", "e">>
size_key == <<"s", "i", "z", "e">>

----------------------------------------------------------------------------
(* Fixed-width native integers *)

Pow2(n) == 2 ^ n
G_MAXINT == Pow2(IntBits - 1) - 1
G_MININT == - Pow2(IntBits - 1)
G_MAXUINT == Pow2(IntBits) - 1
G_MAXINT64 == Pow2(WordBits - 1) - 1
G_MININT64 == - Pow2(WordBits - 1)
G_MAXUINT64 == Pow2(WordBits) - 1
G_MAXSIZE == G_MAXUINT64
G_MAXSSIZE == G_MAXINT64
G_MINSSIZE == G_MININT64

\* reinterpretation of an integer as an unsigned / a signed word
ToUnsignedWord(n) == n % Pow2(WordBits)
ToSignedWord(n) ==
  LET u == n % Pow2(WordBits)
  IN IF u > G_MAXINT64 THEN u - Pow2(WordBits) ELSE u

\* C conversion of a double to an integer type: truncation toward zero
Truncate(v) == IF v.d = 1 /\ v.n < 0 THEN v.n + 1 ELSE v.n

\* double comparisons of a number value n + d/2 against an integer bound
NumberGE(v, b) == v.n >= b
NumberLE(v, b) == v.n < b \/ (v.n = b /\ v.d = 0)

----------------------------------------------------------------------------
(* Numeric and pointer conversions.  A conversion yields ok, the native     *)
(* value n (m: a second word), and exc, the message it throws on failure;   *)
(* w tells whether the output was written; ub marks a value the C standard  *)
(* leaves undefined (a double cast to an integer type that cannot hold it). *)

Converted(n) ==
  [ok |-> TRUE, n |-> n, m |-> 0, exc |-> "", w |-> TRUE, ub |-> FALSE]
Failed(msg) ==
  [ok |-> FALSE, n |-> 0, m |-> 0, exc |-> msg, w |-> FALSE, ub |-> FALSE]
\* a failure after the output was assigned
FailedWritten(msg, n) ==
  [ok |-> FALSE, n |-> n, m |-> 0, exc |-> msg, w |-> TRUE, ub |-> FALSE]
Indeterminate ==
  [ok |-> TRUE, n |-> 0, m |-> 0, exc |-> "", w |-> TRUE, ub |-> TRUE]
\* the engine's API check fails (ToLocalChecked () of an empty MaybeLocal):
\* the process is ended with the message what, the call does not return
Aborted(what) ==
  [ok |-> FALSE, n |-> 0, m |-> 0, exc |-> what, w |-> FALSE, ub |-> FALSE]

\* (gint64) v and (guint64) v of a double v
CastToInt64(v) ==
  IF Truncate(v) >= G_MININT64 /\ Truncate(v) <= G_MAXINT64
  THEN Converted(Truncate(v))
  ELSE Indeterminate
CastToUint64(v) ==
  IF Truncate(v) >= 0 /\ Truncate(v) <= G_MAXUINT64
  THEN Converted(Truncate(v))
  ELSE Indeterminate

\* the internal field of the Int64 / UInt64 / NativePointer wrappers: a BigInt
\* read back with Int64Value () / Uint64Value ()
_gum_v8_int64_get_value(object) == ToSignedWord(object.n)
_gum_v8_uint64_get_value(object) == ToUnsignedWord(object.n)
GUMJS_NATIVE_POINTER_VALUE(object) == ToUnsignedWord(object.n)

\* BigInt::Int64Value (&lossless) and BigInt::Uint64Value (&lossless)
BigIntInt64Lossless(v) == v.n >= G_MININT64 /\ v.n <= G_MAXINT64
BigIntUint64Lossless(v) == v.n >= 0 /\ v.n <= G_MAXUINT64

\* Value::IntegerValue of a number: saturating conversion to int64
IntegerValue(v) ==
  IF Truncate(v) > G_MAXINT64 THEN G_MAXINT64
  ELSE IF Truncate(v) < G_MININT64 THEN G_MININT64
  ELSE Truncate(v)

\* mutant: a number with a fractional part is refused
IntGetRejectsFractions(value) ==
  IF IsNumber(value)
  THEN IF value.d = 0 /\ NumberGE(value, G_MININT) /\ NumberLE(value, G_MAXINT)
       THEN Converted(Truncate(value))
       ELSE Failed("expected an integer")
  ELSE IF IsBigInt(value)
  THEN IF BigIntInt64Lossless(value) /\ value.n >= G_MININT /\ value.n <= G_MAXINT
       THEN Converted(value.n)
       ELSE Failed("expected an integer")
  ELSE Failed("expected an integer")

_gum_v8_int_get(value) ==
  IF IsNumber(value)
  THEN IF NumberGE(value, G_MININT) /\ NumberLE(value, G_MAXINT)
       THEN Converted(Truncate(value))
       ELSE Failed("expected an integer")
  ELSE IF IsBigInt(value)
  THEN IF BigIntInt64Lossless(value) /\ value.n >= G_MININT /\ value.n <= G_MAXINT
       THEN Converted(value.n)
       ELSE Failed("expected an integer")
  ELSE Failed("expected an integer")

_gum_v8_uint_get(value) ==
  IF IsNumber(value)
  THEN IF NumberGE(value, 0) /\ NumberLE(value, G_MAXUINT)
       THEN Converted(Truncate(value))
       ELSE Failed("expected an unsigned integer")
  ELSE IF IsBigInt(value)
  THEN IF BigIntUint64Lossless(value) /\ value.n <= G_MAXUINT
       THEN Converted(value.n)
       ELSE Failed("expected an unsigned integer")
  ELSE Failed("expected an unsigned integer")

_gum_v8_int64_get(value) ==
  IF IsNumber(value) THEN Converted(IntegerValue(value))
  ELSE IF IsBigInt(value)
  THEN IF BigIntInt64Lossless(value)
       THEN Converted(value.n)
       ELSE FailedWritten("expected an integer", ToSignedWord(value.n))
  ELSE IF HasInstance("Int64", value)
  THEN Converted(_gum_v8_int64_get_value(value))
  ELSE Failed("expected an integer")

_gum_v8_uint64_get(value) ==
  IF IsNumber(value)
  THEN IF NumberGE(value, 0)
       THEN CastToUint64(value)
       ELSE Failed("expected an unsigned integer")
  ELSE IF IsBigInt(value)
  THEN IF BigIntUint64Lossless(value)
       THEN Converted(value.n)
       ELSE FailedWritten("expected an unsigned integer", ToUnsignedWord(value.n))
  ELSE IF HasInstance("UInt64", value)
  THEN Converted(_gum_v8_uint64_get_value(value))
  ELSE Failed("expected an unsigned integer")

_gum_v8_size_get(value) ==
  IF IsNumber(value)
  THEN IF NumberGE(value, 0)
       THEN CastToUint64(value)
       ELSE Failed("expected an unsigned integer")
  ELSE IF IsBigInt(value)
  THEN IF BigIntUint64Lossless(value) /\ value.n <= G_MAXSIZE
       THEN Converted(value.n)
       ELSE Failed("expected an unsigned integer")
  ELSE IF HasInstance("UInt64", value)
  THEN Converted(_gum_v8_uint64_get_value(value))
  ELSE IF HasInstance("Int64", value) /\ _gum_v8_int64_get_value(value) >= 0
  THEN Converted(_gum_v8_int64_get_value(value))
  ELSE Failed("expected an unsigned integer")

_gum_v8_ssize_get(value) ==
  IF IsNumber(value) THEN Converted(ToSignedWord(IntegerValue(value)))
  ELSE IF IsBigInt(value)
  THEN IF BigIntInt64Lossless(value) /\ value.n >= G_MINSSIZE /\ value.n <= G_MAXSSIZE
       THEN Converted(value.n)
       ELSE Failed("expected an integer")
  ELSE IF HasInstance("Int64", value)
  THEN Converted(_gum_v8_int64_get_value(value))
  ELSE IF HasInstance("UInt64", value)
  THEN Converted(ToSignedWord(_gum_v8_uint64_get_value(value)))
  ELSE Failed("expected an integer")

----------------------------------------------------------------------------
(* g_ascii_strtoll / g_ascii_strtoull as the string parsers use them *)

IsSpace(c) == c \in {" ", "\t", "\n", "\r"}

DigitValue(c) ==
  CASE c = "0" -> 0 [] c = "1" -> 1 [] c = "2" -> 2 [] c = "3" -> 3
    [] c = "4" -> 4 [] c = "5" -> 5 [] c = "6" -> 6 [] c = "7" -> 7
    [] c = "8" -> 8 [] c = "9" -> 9
    [] c \in {"a", "A"} -> 10 [] c \in {"b", "B"} -> 11
    [] c \in {"c", "C"} -> 12 [] c \in {"d", "D"} -> 13
    [] c \in {"e", "E"} -> 14 [] c \in {"f", "F"} -> 15
    [] OTHER -> 99

IsDigitOf(c, base) == DigitValue(c) < base

RECURSIVE SkipSpaces(_, _)
SkipSpaces(s, i) ==
  IF i <= Len(s) /\ IsSpace(s[i]) THEN SkipSpaces(s, i + 1) ELSE i

\* accumulation of the digits from index i on; the value saturates at limit + 1
RECURSIVE ParseDigits(_, _, _, _, _)
ParseDigits(s, i, base, acc, limit) ==
  IF i <= Len(s) /\ IsDigitOf(s[i], base)
  THEN ParseDigits(s, i + 1, base,
                   IF acc * base + DigitValue(s[i]) > limit THEN limit + 1
                   ELSE acc * base + DigitValue(s[i]),
                   limit)
  ELSE [value |-> acc, end |-> i]

\* g_parse_long_long: leading space, one sign, for base 16 a "0x" prefix, digits.
\* end = start when no digit was converted (the endptr == nptr of the callers).
SignAt(s, i0) == i0 <= Len(s) /\ s[i0] \in {"-", "+"}
MinusAt(s, i0) == i0 <= Len(s) /\ s[i0] = "-"
HexPrefixAt(s, i1, base) ==
  base = 16 /\ i1 + 1 <= Len(s) /\ s[i1] = "0" /\ s[i1 + 1] \in {"x", "X"}

ParsedFromDigits(s, start, base, negative, prefixed, i2) ==
  IF ParseDigits(s, i2, base, 0, G_MAXUINT64).end = i2
  THEN [value |-> 0, negative |-> FALSE, end |-> IF prefixed THEN i2 - 1 ELSE start]
  ELSE [value |-> ParseDigits(s, i2, base, 0, G_MAXUINT64).value,
        negative |-> negative,
        end |-> ParseDigits(s, i2, base, 0, G_MAXUINT64).end]

ParsedFromPrefix(s, start, base, negative, i1) ==
  ParsedFromDigits(s, start, base, negative, HexPrefixAt(s, i1, base),
                   IF HexPrefixAt(s, i1, base) THEN i1 + 2 ELSE i1)

ParsedFromSign(s, start, base, i0) ==
  ParsedFromPrefix(s, start, base, MinusAt(s, i0),
                   IF SignAt(s, i0) THEN i0 + 1 ELSE i0)

\* mutant: no leading space and no sign is taken
ParseWithoutSign(s, start, base) ==
  ParsedFromPrefix(s, start, base, FALSE, start)

g_parse_long_long(s, start, base) ==
  ParsedFromSign(s, start, base, SkipSpaces(s, start))

UnsignedOf(r) ==
  [value |-> IF r.value > G_MAXUINT64 THEN G_MAXUINT64
             ELSE IF r.negative THEN ToUnsignedWord(- r.value)
             ELSE r.value,
   end |-> r.end]

g_ascii_strtoull(s, start, base) == UnsignedOf(g_parse_long_long(s, start, base))

SignedOf(r) ==
  [value |-> IF r.negative /\ r.value > G_MAXINT64 + 1 THEN G_MININT64
             ELSE IF ~ r.negative /\ r.value > G_MAXINT64 THEN G_MAXINT64
             ELSE IF r.negative THEN - r.value
             ELSE r.value,
   end |-> r.end]

g_ascii_strtoll(s, start, base) == SignedOf(g_parse_long_long(s, start, base))

\* the result of a string parser: the value is stored first; failure when
\* strtoll / strtoull converted nothing (end == start)
NumericString(r, start, msg) ==
  IF r.end = start THEN FailedWritten(msg, r.value) ELSE Converted(r.value)

g_str_has_prefix_0x(s) == Len(s) >= 2 /\ s[1] = "0" /\ s[2] = "x"

\* mutant: text left over after the digits is an error
Int64ParseWholeText(value) ==
  IF IsString(value)
  THEN IF g_str_has_prefix_0x(value.s)
       THEN IF g_ascii_strtoll(value.s, 3, 16).end = Len(value.s) + 1
            THEN NumericString(g_ascii_strtoll(value.s, 3, 16), 3,
                               "invalid hexadecimal string")
            ELSE Failed("invalid hexadecimal string")
       ELSE IF g_ascii_strtoll(value.s, 1, 10).end = Len(value.s) + 1
            THEN NumericString(g_ascii_strtoll(value.s, 1, 10), 1,
                               "invalid hexadecimal string")
            ELSE Failed("invalid hexadecimal string")
  ELSE _gum_v8_int64_get(value)

_gum_v8_int64_parse(value) ==
  IF IsString(value)
  THEN IF g_str_has_prefix_0x(value.s)
       THEN NumericString(g_ascii_strtoll(value.s, 3, 16), 3, "invalid hexadecimal string")
       ELSE NumericString(g_ascii_strtoll(value.s, 1, 10), 1, "invalid hexadecimal string")
  ELSE _gum_v8_int64_get(value)

_gum_v8_uint64_parse(value) ==
  IF IsString(value)
  THEN IF g_str_has_prefix_0x(value.s)
       THEN NumericString(g_ascii_strtoull(value.s, 3, 16), 3, "invalid hexadecimal string")
       ELSE NumericString(g_ascii_strtoull(value.s, 1, 10), 1, "invalid hexadecimal string")
  ELSE _gum_v8_uint64_get(value)

\* Value::ToObject fails (and its exception is swallowed) for undefined and null
ToObjectSucceeds(value) == ~ IsUndefined(value) /\ ~ IsNull(value)

\* mutant: the address is read back as a gint
NativePointerGetTruncates(value) ==
  IF HasInstance("NativePointer", value)
  THEN Converted(GUMJS_NATIVE_POINTER_VALUE(value) % Pow2(IntBits))
  ELSE Failed("expected a pointer")

\* mutant: the handle of a handle is followed too
RECURSIVE NativePointerGetUnwrapsDeep(_)
NativePointerGetUnwrapsDeep(value) ==
  IF HasInstance("NativePointer", value)
  THEN Converted(GUMJS_NATIVE_POINTER_VALUE(value))
  ELSE IF ToObjectSucceeds(value) /\ handle_key \in DOMAIN value.p
  THEN IF GetProperty(value, handle_key) = ThrowingGetter
       THEN Aborted("v8::ToLocalChecked: Empty MaybeLocal")
       ELSE NativePointerGetUnwrapsDeep(GetProperty(value, handle_key))
  ELSE Failed("expected a pointer")

_gum_v8_native_pointer_get(value) ==
  IF HasInstance("NativePointer", value)
  THEN Converted(GUMJS_NATIVE_POINTER_VALUE(value))
  ELSE IF ToObjectSucceeds(value) /\ handle_key \in DOMAIN value.p
  THEN IF GetProperty(value, handle_key) = ThrowingGetter
       THEN Aborted("v8::ToLocalChecked: Empty MaybeLocal")
       ELSE IF HasInstance("NativePointer", GetProperty(value, handle_key))
       THEN Converted(GUMJS_NATIVE_POINTER_VALUE(GetProperty(value, handle_key)))
       ELSE Failed("expected a pointer")
  ELSE Failed("expected a pointer")

\* mutant: every string is read as decimal
NativePointerParseDecimalOnly(value) ==
  IF IsString(value)
  THEN NumericString(g_ascii_strtoull(value.s, 1, 10), 1, "invalid decimal string")
  ELSE IF IsNumber(value)
  THEN IF value.n < 0
       THEN IF CastToInt64(value).ub THEN Indeterminate
            ELSE Converted(ToUnsignedWord(CastToInt64(value).n))
       ELSE CastToUint64(value)
  ELSE _gum_v8_native_pointer_get(value)

_gum_v8_native_pointer_parse(value) ==
  IF IsString(value)
  THEN IF g_str_has_prefix_0x(value.s)
       THEN NumericString(g_ascii_strtoull(value.s, 3, 16), 3,
                          "invalid hexadecimal string")
       ELSE NumericString(g_ascii_strtoull(value.s, 1, 10), 1,
                          "invalid decimal string")
  ELSE IF IsNumber(value)
  THEN IF value.n < 0
       THEN IF CastToInt64(value).ub THEN Indeterminate
            ELSE Converted(ToUnsignedWord(CastToInt64(value).n))
       ELSE CastToUint64(value)
  ELSE IF IsBigInt(value) THEN Converted(ToUnsignedWord(value.n))
  ELSE IF HasInstance("UInt64", value)
  THEN Converted(ToUnsignedWord(_gum_v8_uint64_get_value(value)))
  ELSE IF HasInstance("Int64", value)
  THEN Converted(ToUnsignedWord(_gum_v8_int64_get_value(value)))
  ELSE _gum_v8_native_pointer_get(value)

----------------------------------------------------------------------------
(* Structured conversions: byte buffers, memory ranges, page protection,    *)
(* CPU contexts, match patterns.  c is the content of the value produced.   *)

(* scratch is what became of a buffer the conversion got from g_malloc:      *)
(* "none" when it made none, "taken" when the result owns it, "freed", or   *)
(* "leaked".                                                                *)

Produced(c) == [ok |-> TRUE, c |-> c, exc |-> "", scratch |-> "none"]
NotProduced(msg) == [ok |-> FALSE, c |-> <<>>, exc |-> msg, scratch |-> "none"]
WithScratch(r, fate) == [r EXCEPT !.scratch = fate]

\* Array::Length and Array::Get: n is the length of an array whose elements
\* after those of e are holes, which read as undefined
ArrayLength(array) == IF array.n > Len(array.e) THEN array.n ELSE Len(array.e)
ArrayGet(array, i) == IF i <= Len(array.e) THEN array.e[i] ELSE Undefined
SparseArray(e, length) == JSValue("array", length, 0, <<>>, NoProps, e)

GUM_MAX_SEND_ARRAY_LENGTH == 1024 * 1024

\* Value::Uint32Value of an array element: ToNumber, then ToUint32.  just is
\* FALSE when the conversion throws (a BigInt, an element whose getter throws).
Uint32Value(element) ==
  IF element.k \in {"bigint", "getter-throws"} THEN [just |-> FALSE, n |-> 0]
  ELSE IF IsNumber(element)
  THEN [just |-> TRUE, n |-> Truncate(element) % Pow2(IntBits)]
  ELSE IF IsBoolean(element) THEN [just |-> TRUE, n |-> element.n]
  ELSE IF IsString(element) /\ Len(element.s) > 0
          /\ \A i \in 1..Len(element.s) : IsDigitOf(element.s[i], 10)
  THEN [just |-> TRUE,
        n |-> ParseDigits(element.s, 1, 10, 0, G_MAXUINT64).value % Pow2(IntBits)]
  ELSE [just |-> TRUE, n |-> 0]

\* data[i] = element.FromJust (): the guint8 store keeps the low bits
ByteOf(n) == n % Pow2(ByteBits)

\* the array elements the loop reads: it stops at the first invalid one
ElementsValid(array) ==
  \A i \in 1..Len(array.e) : Uint32Value(array.e[i]).just

ArrayBytes(array) ==
  [i \in 1..ArrayLength(array) |-> ByteOf(Uint32Value(ArrayGet(array, i)).n)]

\* mutant: an element that does not fit a byte makes the array invalid
BytesTryGetChecksRange(value) ==
  IF IsArray(value)
  THEN IF ArrayLength(value) > GUM_MAX_SEND_ARRAY_LENGTH THEN NotProduced("")
       ELSE IF ~ ElementsValid(value)
               \/ \E i \in 1..Len(value.e) :
                    Uint32Value(value.e[i]).n # ByteOf(Uint32Value(value.e[i]).n)
       THEN WithScratch(NotProduced(""), "freed")
       ELSE WithScratch(Produced(ArrayBytes(value)), "taken")
  ELSE IF IsArrayBuffer(value) \/ IsArrayBufferView(value) THEN Produced(value.e)
  ELSE NotProduced("")

_gum_v8_bytes_try_get(value) ==
  IF IsArrayBuffer(value) THEN Produced(value.e)
  ELSE IF IsArrayBufferView(value) THEN WithScratch(Produced(value.e), "taken")
  ELSE IF IsArray(value)
  THEN IF ArrayLength(value) > GUM_MAX_SEND_ARRAY_LENGTH THEN NotProduced("")
       ELSE IF ~ ElementsValid(value)
       THEN WithScratch(NotProduced(""), "freed")
       ELSE WithScratch(Produced(ArrayBytes(value)), "taken")
  ELSE NotProduced("")

_gum_v8_bytes_get(value) ==
  LET result == _gum_v8_bytes_try_get(value)
  IN IF ~ result.ok
     THEN WithScratch(NotProduced("unsupported data value"), result.scratch)
     ELSE result

\* the byte of an ASCII character (the characters the model uses)
CharCode(ch) ==
  CASE ch = "a" -> 97 [] ch = "b" -> 98 [] ch = "x" -> 120 [] ch = "z" -> 122
    [] ch = "0" -> 48 [] ch = "1" -> 49 [] ch = "2" -> 50 [] ch = "3" -> 51
    [] ch = "4" -> 52 [] ch = "5" -> 53 [] ch = "6" -> 54 [] OTHER -> 63

\* g_bytes_new (value_as_string, strlen (value_as_string))
_gum_v8_bytes_parse(value) ==
  IF IsString(value) THEN Produced([i \in 1..Len(value.s) |-> CharCode(value.s[i])])
  ELSE _gum_v8_bytes_get(value)

_gum_v8_memory_range_get(value) ==
  IF ~ IsObject(value) THEN Failed("expected a range object")
  ELSE IF GetProperty(value, base_key) = ThrowingGetter THEN Failed("getter threw")
  ELSE IF ~ _gum_v8_native_pointer_get(GetProperty(value, base_key)).ok
  THEN Failed("expected a pointer")
  ELSE IF GetProperty(value, size_key) = ThrowingGetter THEN Failed("getter threw")
  ELSE IF ~ IsNumber(GetProperty(value, size_key))
  THEN Failed("range object has an invalid or missing size property")
  ELSE [ok |-> TRUE,
        n |-> _gum_v8_native_pointer_get(GetProperty(value, base_key)).n,
        m |-> Truncate(GetProperty(value, size_key)) % Pow2(IntBits),
        exc |-> "", w |-> TRUE, ub |-> FALSE]

RangeOf(r) == <<r.n, r.m>>

\* index of the first element that is no memory range, 0 when all are
FirstBadRange(e) ==
  IF \E i \in 1..Len(e) : ~ _gum_v8_memory_range_get(e[i]).ok
  THEN CHOOSE i \in 1..Len(e) :
         /\ ~ _gum_v8_memory_range_get(e[i]).ok
         /\ \A j \in 1..(i - 1) : _gum_v8_memory_range_get(e[j]).ok
  ELSE 0

_gum_v8_memory_ranges_get(value) ==
  IF IsArray(value)
  THEN IF FirstBadRange(value.e) # 0
       THEN NotProduced(_gum_v8_memory_range_get(value.e[FirstBadRange(value.e)]).exc)
       ELSE Produced([i \in 1..Len(value.e) |->
                        RangeOf(_gum_v8_memory_range_get(value.e[i]))])
  ELSE IF IsObject(value)
  THEN IF ~ _gum_v8_memory_range_get(value).ok
       THEN NotProduced(_gum_v8_memory_range_get(value).exc)
       ELSE Produced(<<RangeOf(_gum_v8_memory_range_get(value))>>)
  ELSE NotProduced("expected a range object or an array of range objects")

\* GumPageProtection bits: GUM_PAGE_READ 1, GUM_PAGE_WRITE 2, GUM_PAGE_EXECUTE 4
ProtBit(ch) == CASE ch = "r" -> 1 [] ch = "w" -> 2 [] ch = "x" -> 4 [] OTHER -> 0

HasBit(prot, bit) == (prot \div bit) % 2 = 1

RECURSIVE ProtOfChars(_, _, _)
ProtOfChars(str, i, prot) ==
  IF i > Len(str) THEN Converted(prot)
  ELSE IF str[i] \in {"r", "w", "x"}
  THEN ProtOfChars(str, i + 1,
                   IF HasBit(prot, ProtBit(str[i])) THEN prot
                   ELSE prot + ProtBit(str[i]))
  ELSE IF str[i] = "-" THEN ProtOfChars(str, i + 1, prot)
  ELSE FailedWritten("invalid character in memory protection specifier string",
                     prot)

\* mutant: the letters are read at the positions _gum_v8_page_protection_new
\* writes them
PageProtectionGetPositional(prot_val) ==
  IF ~ IsString(prot_val)
  THEN Failed("expected a string specifying memory protection")
  ELSE IF \E i \in 1..Len(prot_val.s) : prot_val.s[i] \notin {"r", "w", "x", "-"}
  THEN FailedWritten("invalid character in memory protection specifier string", 0)
  ELSE Converted((IF Len(prot_val.s) >= 1 /\ prot_val.s[1] = "r" THEN 1 ELSE 0)
                 + (IF Len(prot_val.s) >= 2 /\ prot_val.s[2] = "w" THEN 2 ELSE 0)
                 + (IF Len(prot_val.s) >= 3 /\ prot_val.s[3] = "x" THEN 4 ELSE 0))

_gum_v8_page_protection_get(prot_val) ==
  IF ~ IsString(prot_val)
  THEN Failed("expected a string specifying memory protection")
  ELSE ProtOfChars(prot_val.s, 1, 0)

_gum_v8_page_protection_new(prot) ==
  String(<<IF HasBit(prot, 1) THEN "r" ELSE "-",
           IF HasBit(prot, 2) THEN "w" ELSE "-",
           IF HasBit(prot, 4) THEN "x" ELSE "-">>)

_gum_v8_cpu_context_get(value) ==
  IF ~ HasInstance("CpuContext", value) THEN Failed("expected a CpuContext object")
  ELSE Converted(value.n)

\* gum_match_pattern_new_from_string: NULL for a string that is no pattern
gum_match_pattern_new_from_string(str) ==
  IF Len(str) > 0 /\ \A i \in 1..Len(str) : IsDigitOf(str[i], 16) \/ str[i] \in {" ", "?"}
  THEN Produced(str)
  ELSE NotProduced("")

----------------------------------------------------------------------------
(* Native allocations and the transactional parse scope *)

\* kind: "string", "array", "bytes", "pattern"; rc: references held (0: freed);
\* rel: releases made by a parse scope; st: times staged in a parse scope;
\* bad: released when already freed or by the function of another kind;
\* c: content
Allocation(kind, c) ==
  [kind |-> kind, rc |-> 1, rel |-> 0, st |-> 0, bad |-> FALSE, c |-> c]

HeapNew(h, kind, c) == Append(h, Allocation(kind, c))

\* mutant: the pattern of a MatchPattern object is staged without a reference
PatternStagedUnreferenced(h, id) == h

gum_match_pattern_ref(h, id) == [h EXCEPT ![id].rc = @ + 1]

\* the kind of allocation a release function is for
KindReleasedBy(func) ==
  CASE func = "g_free" -> "string"
    [] func = "g_array_unref" -> "array"
    [] func = "g_bytes_unref" -> "bytes"
    [] func = "gum_match_pattern_unref" -> "pattern"

\* g_free, g_array_unref, g_bytes_unref, gum_match_pattern_unref applied to
\* allocation id.  bad: released when no reference was left, or by the
\* function of another kind
Release(h, id, func) ==
  [h EXCEPT ![id].rc = IF @ > 0 THEN @ - 1 ELSE @,
            ![id].rel = @ + 1,
            ![id].bad = @ \/ h[id].rc = 0 \/ h[id].kind # KindReleasedBy(func)]

\* g_slist_foreach (list, func, NULL)
RECURSIVE g_slist_foreach(_, _, _)
g_slist_foreach(h, list, func) ==
  IF list = <<>> THEN h
  ELSE g_slist_foreach(Release(h, Head(list), func), Tail(list), func)

GumV8ArgsParseScope ==
  [committed |-> FALSE, strings |-> <<>>, arrays |-> <<>>, bytes |-> <<>>,
   match_patterns |-> <<>>]

\* scope.strdup / scope.add: g_slist_prepend to the list of the allocation's kind
ScopeAdd(sc, list, id) ==
  CASE list = "strings" -> [sc EXCEPT !.strings = <<id>> \o @]
    [] list = "arrays" -> [sc EXCEPT !.arrays = <<id>> \o @]
    [] list = "bytes" -> [sc EXCEPT !.bytes = <<id>> \o @]
    [] list = "match_patterns" -> [sc EXCEPT !.match_patterns = <<id>> \o @]

ScopeCommit(sc) == [sc EXCEPT !.committed = TRUE]

\* the four g_slist_foreach calls of the destructor
ReleaseLists(sc, h) ==
  g_slist_foreach(
    g_slist_foreach(
      g_slist_foreach(
        g_slist_foreach(h, sc.strings, "g_free"),
        sc.arrays, "g_array_unref"),
      sc.bytes, "g_bytes_unref"),
    sc.match_patterns, "gum_match_pattern_unref")

\* mutant: the destructor forgets the list of byte buffers
ScopeDestroyLeakBytes(sc, h) ==
  IF ~ sc.committed
  THEN g_slist_foreach(
         g_slist_foreach(
           g_slist_foreach(h, sc.strings, "g_free"),
           sc.arrays, "g_array_unref"),
         sc.match_patterns, "gum_match_pattern_unref")
  ELSE h

\* mutant: the destructor releases the staged allocations of a committed scope too
ScopeDestroyIgnoresCommit(sc, h) == ReleaseLists(sc, h)

\* ~GumV8ArgsParseScope: the heap after the destructor ran
ScopeDestroy(sc, h) == IF ~ sc.committed THEN ReleaseLists(sc, h) ELSE h

\* the four g_slist_free calls of the destructor
ScopeFreeLists(sc) ==
  [sc EXCEPT !.strings = <<>>, !.arrays = <<>>, !.bytes = <<>>,
             !.match_patterns = <<>>]

----------------------------------------------------------------------------
(* _gum_v8_args_parse: the switch over the tag *t *)

\* an output slot taken from the va_list.  k: the C type written; w: FALSE when
\* the slot was taken but not written; n, m: native words; j: a Local<Value>;
\* a: TRUE when n is the id of an allocation of heap
Slot(k, n) == [k |-> k, w |-> TRUE, n |-> n, m |-> 0, j |-> EmptyLocal, a |-> FALSE]
SlotLocal(k, j) == [k |-> k, w |-> TRUE, n |-> 0, m |-> 0, j |-> j, a |-> FALSE]
SlotRange(n, m) ==
  [k |-> "GumMemoryRange", w |-> TRUE, n |-> n, m |-> m, j |-> EmptyLocal, a |-> FALSE]
SlotAllocation(k) ==
  [k |-> k, w |-> TRUE, n |-> 0, m |-> 0, j |-> EmptyLocal, a |-> TRUE]
SlotTaken(k) == [k |-> k, w |-> FALSE, n |-> 0, m |-> 0, j |-> EmptyLocal, a |-> FALSE]

\* the outcome of one case of the switch.  t: index of the last character the
\* case consumed; outs: slots taken; list: the scope list the case stages an
\* allocation in ("none": no allocation); c: content of a new allocation;
\* pid: an existing pattern referenced instead of a new allocation (0: none)
TagDone(tt, outs) ==
  [ok |-> TRUE, exc |-> "", nthrows |-> 0, t |-> tt, outs |-> outs,
   list |-> "none", kind |-> "none", c |-> <<>>, pid |-> 0]
TagStaged(tt, outs, list, kind, c, pid) ==
  [ok |-> TRUE, exc |-> "", nthrows |-> 0, t |-> tt, outs |-> outs,
   list |-> list, kind |-> kind, c |-> c, pid |-> pid]
TagFailed(tt, msg, nthrows, outs) ==
  [ok |-> FALSE, exc |-> msg, nthrows |-> nthrows, t |-> tt, outs |-> outs,
   list |-> "none", kind |-> "none", c |-> <<>>, pid |-> 0]

\* t[1]: the character after index tt, "NUL" at the end of the string
Peek(fmt, tt) == IF tt + 1 <= Len(fmt) THEN fmt[tt + 1] ELSE "NUL"

\* strchr (t, ch): index of the first ch at or after tt, 0 when there is none
strchr(fmt, tt, ch) ==
  IF \E i \in tt..Len(fmt) : fmt[i] = ch
  THEN CHOOSE i \in tt..Len(fmt) : fmt[i] = ch /\ \A j \in tt..(i - 1) : fmt[j] # ch
  ELSE 0

\* cases 'i', 'u', 'z', 'Z', 'm': a conversion into one slot of type k
CaseNumeric(tt, k, r) ==
  IF ~ r.ok THEN TagFailed(tt, r.exc, 1, <<>>) ELSE TagDone(tt, <<Slot(k, r.n)>>)

\* cases 'q', 'Q', 'p': the '~' modifier selects the parse (fuzzy) conversion
CaseFuzzy(fmt, tt, k, parsed, got) ==
  LET is_fuzzy == Peek(fmt, tt) = "~"
      t1 == IF is_fuzzy THEN tt + 1 ELSE tt
      r == IF is_fuzzy THEN parsed ELSE got
  IN IF ~ r.ok THEN TagFailed(t1, r.exc, 1, <<>>) ELSE TagDone(t1, <<Slot(k, r.n)>>)

\* mutant: the string case returns FALSE without throwing
CaseStringNoThrow(fmt, tt, arg) ==
  IF Peek(fmt, tt) = "?" /\ IsNull(arg) THEN TagDone(tt + 1, <<Slot("gchar *", 0)>>)
  ELSE IF IsString(arg)
  THEN TagStaged(IF Peek(fmt, tt) = "?" THEN tt + 1 ELSE tt,
                 <<SlotAllocation("gchar *")>>, "strings", "string", arg.s, 0)
  ELSE TagFailed(tt, "", 0, <<>>)

CaseString(fmt, tt, arg) ==
  LET is_nullable == Peek(fmt, tt) = "?"
      t1 == IF is_nullable THEN tt + 1 ELSE tt
  IN IF is_nullable /\ IsNull(arg) THEN TagDone(t1, <<Slot("gchar *", 0)>>)
     ELSE IF IsString(arg)
     THEN TagStaged(t1, <<SlotAllocation("gchar *")>>, "strings", "string", arg.s, 0)
     ELSE TagFailed(t1, "expected a string", 1, <<>>)

CaseRange(tt, arg) ==
  LET r == _gum_v8_memory_range_get(arg)
  IN IF ~ r.ok THEN TagFailed(tt, r.exc, 1, <<SlotTaken("GumMemoryRange")>>)
     ELSE TagDone(tt, <<SlotRange(r.n, r.m)>>)

CaseRanges(tt, arg) ==
  LET ranges == _gum_v8_memory_ranges_get(arg)
  IN IF ~ ranges.ok THEN TagFailed(tt, ranges.exc, 1, <<>>)
     ELSE TagStaged(tt, <<SlotAllocation("GArray *")>>, "arrays", "array", ranges.c, 0)

CaseObject(fmt, tt, arg) ==
  LET is_nullable == Peek(fmt, tt) = "?"
      t1 == IF is_nullable THEN tt + 1 ELSE tt
  IN IF is_nullable /\ IsNull(arg)
     THEN TagDone(t1, <<SlotLocal("Local<Object>", EmptyLocal)>>)
     ELSE IF IsObject(arg) THEN TagDone(t1, <<SlotLocal("Local<Object>", arg)>>)
     ELSE TagFailed(t1, "expected an object", 1, <<>>)

CaseArray(fmt, tt, arg) ==
  LET is_nullable == Peek(fmt, tt) = "?"
      t1 == IF is_nullable THEN tt + 1 ELSE tt
  IN IF IsArray(arg) THEN TagDone(t1, <<SlotLocal("Local<Array>", arg)>>)
     ELSE IF is_nullable /\ IsNull(arg)
     THEN TagDone(t1, <<SlotLocal("Local<Array>", EmptyLocal)>>)
     ELSE TagFailed(t1, "expected an array", 1, <<>>)

\* mutant: func_c is not written, whatever the '*' modifier says
CallbackSlotsWithoutPointer(accepts_pointer, func_js, func_c) ==
  <<[k |-> "Local<Function>", w |-> TRUE, n |-> 0, m |-> 0, j |-> func_js, a |-> FALSE]>>

\* the slots written for one callback: func_js and, with '*', func_c
CallbackSlots(accepts_pointer, func_js, func_c) ==
  IF accepts_pointer
  THEN <<SlotLocal("Local<Function>", func_js), Slot("gpointer", func_c)>>
  ELSE <<SlotLocal("Local<Function>", func_js)>>

\* the do ... while loop over the names listed between '{' and '}'
\* one name of the list: the slots written for it, or the failure
CallbackValue(value, is_optional, accepts_pointer) ==
  IF value = ThrowingGetter THEN [ok |-> FALSE, exc |-> "getter threw", outs |-> <<>>]
  ELSE IF IsFunction(value)
  THEN [ok |-> TRUE, exc |-> "", outs |-> CallbackSlots(accepts_pointer, value, 0)]
  ELSE IF is_optional /\ IsUndefined(value)
  THEN [ok |-> TRUE, exc |-> "", outs |-> CallbackSlots(accepts_pointer, EmptyLocal, 0)]
  ELSE IF accepts_pointer /\ HasInstance("NativePointer", value)
  THEN [ok |-> TRUE, exc |-> "",
        outs |-> CallbackSlots(accepts_pointer, EmptyLocal, value.n)]
  ELSE [ok |-> FALSE, exc |-> "expected a callback value", outs |-> <<>>]

\* t_end: the ',' or '}' that ends the name starting at tt
NameEnd(fmt, tt) ==
  IF strchr(fmt, tt, ",") # 0 /\ strchr(fmt, tt, ",") < strchr(fmt, tt, "}")
  THEN strchr(fmt, tt, ",")
  ELSE strchr(fmt, tt, "}")

NameIsOptional(fmt, tt, t_end) == fmt[t_end - 1] = "?"

NameOf(fmt, tt, t_end) ==
  IF NameIsOptional(fmt, tt, t_end) THEN SubSeq(fmt, tt, t_end - 2)
  ELSE SubSeq(fmt, tt, t_end - 1)

\* the do ... while loop over the names listed between '{' and '}'
RECURSIVE CaseCallbacks(_, _, _, _, _, _)
CaseCallbacks(fmt, tt, t_end, callbacks, accepts_pointer, outs) ==
  IF ~ CallbackValue(GetProperty(callbacks, NameOf(fmt, tt, t_end)),
                     NameIsOptional(fmt, tt, t_end), accepts_pointer).ok
  THEN TagFailed(tt,
                 CallbackValue(GetProperty(callbacks, NameOf(fmt, tt, t_end)),
                               NameIsOptional(fmt, tt, t_end), accepts_pointer).exc,
                 1, outs)
  ELSE IF t_end # strchr(fmt, tt, "}")
  THEN CaseCallbacks(fmt, t_end + 1, NameEnd(fmt, t_end + 1), callbacks,
                     accepts_pointer,
                     outs \o CallbackValue(
                               GetProperty(callbacks, NameOf(fmt, tt, t_end)),
                               NameIsOptional(fmt, tt, t_end), accepts_pointer).outs)
  ELSE TagDone(t_end,
               outs \o CallbackValue(
                         GetProperty(callbacks, NameOf(fmt, tt, t_end)),
                         NameIsOptional(fmt, tt, t_end), accepts_pointer).outs)

CaseFunction(fmt, tt, arg) ==
  LET accepts_pointer == Peek(fmt, tt) = "*"
      t1 == IF accepts_pointer THEN tt + 1 ELSE tt
      is_expecting_object == Peek(fmt, t1) = "{"
      t2 == IF is_expecting_object THEN t1 + 2 ELSE t1
      is_nullable == Peek(fmt, t2) = "?"
      t3 == IF is_nullable THEN t2 + 1 ELSE t2
  IN IF is_expecting_object
     THEN IF ~ IsObject(arg)
          THEN TagFailed(t2, "expected an object containing callbacks", 1, <<>>)
          ELSE CaseCallbacks(fmt, t2, NameEnd(fmt, t2), arg, accepts_pointer, <<>>)
     ELSE IF IsFunction(arg) THEN TagDone(t3, CallbackSlots(accepts_pointer, arg, 0))
     ELSE IF is_nullable /\ IsNull(arg)
     THEN TagDone(t3, CallbackSlots(accepts_pointer, EmptyLocal, 0))
     ELSE IF accepts_pointer /\ HasInstance("NativePointer", arg)
     THEN TagDone(t3, CallbackSlots(accepts_pointer, EmptyLocal, arg.n))
     ELSE TagFailed(t3, "expected a function", 1, <<>>)

CaseBytes(fmt, tt, arg) ==
  LET is_fuzzy == Peek(fmt, tt) = "~"
      t1 == IF is_fuzzy THEN tt + 1 ELSE tt
      is_nullable == Peek(fmt, t1) = "?"
      t2 == IF is_nullable THEN t1 + 1 ELSE t1
      bytes == IF is_fuzzy THEN _gum_v8_bytes_parse(arg) ELSE _gum_v8_bytes_get(arg)
  IN IF is_nullable /\ IsNull(arg) THEN TagDone(t2, <<Slot("GBytes *", 0)>>)
     ELSE IF ~ bytes.ok THEN TagFailed(t2, bytes.exc, 1, <<>>)
     ELSE TagStaged(t2, <<SlotAllocation("GBytes *")>>, "bytes", "bytes", bytes.c, 0)

\* on failure _gum_v8_cpu_context_get has thrown and the case throws once more
CaseCpuContext(fmt, tt, arg) ==
  LET is_nullable == Peek(fmt, tt) = "?"
      t1 == IF is_nullable THEN tt + 1 ELSE tt
      r == _gum_v8_cpu_context_get(arg)
  IN IF is_nullable /\ IsNull(arg) THEN TagDone(t1, <<Slot("GumCpuContext *", 0)>>)
     ELSE IF ~ r.ok THEN TagFailed(t1, "expected a CpuContext object", 2, <<>>)
     ELSE TagDone(t1, <<Slot("GumCpuContext *", r.n)>>)

CaseMatchPattern(tt, arg) ==
  IF IsString(arg)
  THEN IF ~ gum_match_pattern_new_from_string(arg.s).ok
       THEN TagFailed(tt, "invalid match pattern", 1, <<>>)
       ELSE TagStaged(tt, <<SlotAllocation("GumMatchPattern *")>>, "match_patterns",
                      "pattern", arg.s, 0)
  ELSE IF ~ HasInstance("MatchPattern", arg)
  THEN TagFailed(tt, "expected either a pattern string or a MatchPattern object",
                 1, <<>>)
  ELSE TagStaged(tt, <<SlotAllocation("GumMatchPattern *")>>, "match_patterns",
                 "pattern", <<>>, arg.n)

ParseCase(fmt, tt, arg) ==
  CASE fmt[tt] = "i" -> CaseNumeric(tt, "gint", _gum_v8_int_get(arg))
    [] fmt[tt] = "u" -> CaseNumeric(tt, "guint", _gum_v8_uint_get(arg))
    [] fmt[tt] = "q" ->
         CaseFuzzy(fmt, tt, "gint64", _gum_v8_int64_parse(arg), _gum_v8_int64_get(arg))
    [] fmt[tt] = "Q" ->
         CaseFuzzy(fmt, tt, "guint64", _gum_v8_uint64_parse(arg),
                   _gum_v8_uint64_get(arg))
    [] fmt[tt] = "z" -> CaseNumeric(tt, "gssize", _gum_v8_ssize_get(arg))
    [] fmt[tt] = "Z" -> CaseNumeric(tt, "gsize", _gum_v8_size_get(arg))
    [] fmt[tt] = "n" ->
         IF ~ IsNumber(arg) THEN TagFailed(tt, "expected a number", 1, <<>>)
         ELSE TagDone(tt, <<SlotLocal("gdouble", arg)>>)
    [] fmt[tt] = "t" ->
         IF ~ IsBoolean(arg) THEN TagFailed(tt, "expected a boolean", 1, <<>>)
         ELSE TagDone(tt, <<Slot("gboolean", arg.n)>>)
    [] fmt[tt] = "p" ->
         CaseFuzzy(fmt, tt, "gpointer", _gum_v8_native_pointer_parse(arg),
                   _gum_v8_native_pointer_get(arg))
    [] fmt[tt] = "X" ->
         IF ~ IsExternal(arg)
         THEN TagFailed(tt, "expected an external pointer", 1, <<>>)
         ELSE TagDone(tt, <<Slot("gpointer", arg.n)>>)
    [] fmt[tt] = "s" -> CaseString(fmt, tt, arg)
    [] fmt[tt] = "S" ->
         IF ~ IsString(arg) THEN TagFailed(tt, "expected a string", 1, <<>>)
         ELSE TagDone(tt, <<SlotLocal("std::string", arg)>>)
    [] fmt[tt] = "r" -> CaseRange(tt, arg)
    [] fmt[tt] = "R" -> CaseRanges(tt, arg)
    [] fmt[tt] = "m" ->
         CaseNumeric(tt, "GumPageProtection", _gum_v8_page_protection_get(arg))
    [] fmt[tt] = "V" -> TagDone(tt, <<SlotLocal("Local<Value>", arg)>>)
    [] fmt[tt] = "O" -> CaseObject(fmt, tt, arg)
    [] fmt[tt] = "A" -> CaseArray(fmt, tt, arg)
    [] fmt[tt] = "F" -> CaseFunction(fmt, tt, arg)
    [] fmt[tt] = "B" -> CaseBytes(fmt, tt, arg)
    [] fmt[tt] = "C" -> CaseCpuContext(fmt, tt, arg)
    [] fmt[tt] = "M" -> CaseMatchPattern(tt, arg)

----------------------------------------------------------------------------
(* _gum_v8_args_parse: the calls explored *)

\* the tags a format is assembled from, each with its modifier characters
Tokens ==
  { <<"i">>, <<"s", "?">>, <<"R">>, <<"B", "~", "?">>, <<"M">>, <<"C">>,
    <<"r">>, <<"F", "*", "{", "a", ",", "b", "?", "}">> }

RangeObject == Object((base_key :> NativePointerValue(8)) @@ (size_key :> Number(4)))
CallbacksObject == Object(<<"a">> :> Function(1))
PointerCallbacksObject ==
  Object((<<"a">> :> NativePointerValue(9)) @@ (<<"b">> :> Function(2)))

\* the argument values tried for a tag: well-typed ones, an ill-typed one and
\* undefined
ArgsFor(tok) ==
  CASE tok = <<"i">> -> {Number(3), String(<<"x">>), Undefined}
    [] tok = <<"s", "?">> -> {String(<<"a", "b">>), Null, Number(3), Undefined}
    [] tok = <<"R">> -> {Array(<<RangeObject>>), Number(3), Undefined}
    [] tok = <<"B", "~", "?">> ->
         {String(<<"a">>), Array(<<Number(1), Number(2)>>), Null, Number(3), Undefined}
    [] tok = <<"M">> ->
         {String(<<"1", "3">>), String(<<"z">>), MatchPatternValue(1), Undefined}
    [] tok = <<"C">> -> {CpuContextValue(1), Number(3), Undefined}
    [] tok = <<"r">> -> {RangeObject, Number(3), Undefined}
    [] tok = <<"F", "*", "{", "a", ",", "b", "?", "}">> ->
         {CallbacksObject, PointerCallbacksObject, Number(3), Undefined}

\* the patterns owned by MatchPattern script objects before the call
InitialHeap == <<Allocation("pattern", <<"4", "2">>)>>

RECURSIVE Concat(_)
Concat(seqs) == IF seqs = <<>> THEN <<>> ELSE Head(seqs) \o Concat(Tail(seqs))

\* the format string for the tags, with '|' before tag number sep (0: no '|')
FormatOf(toks, sep) ==
  IF sep = 0 THEN Concat(toks)
  ELSE Concat(SubSeq(toks, 1, sep - 1)) \o <<"|">>
       \o Concat(SubSeq(toks, sep, Len(toks)))

TagSeqs == UNION {[1..n -> Tokens] : n \in 0..MaxTags}

ArgSeqsFor(toks) ==
  UNION {{a \in [1..n -> UNION {ArgsFor(tok) : tok \in Tokens}] :
            \A i \in 1..n : a[i] \in ArgsFor(toks[i])} : n \in 0..Len(toks)}

InitErrorIdle ==
  /\ error = 0
  /\ gerrors = <<>>
  /\ thrown = <<>>
  /\ error_calls = <<>>
  /\ error_pc = "run"

InitConvertIdle ==
  /\ input = Undefined
  /\ origin = [fn |-> "script", n |-> 0]
  /\ conv = [fn |-> "none", r |-> Failed("")]

\* the allocator as the program starts: the buffer at its address, nothing
\* allocated, no call made
NoCall ==
  [op |-> "none", ret |-> 0, before |-> 0, after |-> 0, failed |-> FALSE,
   trapped |-> FALSE]

InitMspaceIdle ==
  /\ static_buffer = Pow2(12)
  /\ static_offset = 0
  /\ returned = <<>>
  /\ mspace_call = NoCall

InitValueIdle == InitErrorIdle /\ InitConvertIdle /\ InitMspaceIdle

InitRegistryIdle ==
  /\ resources = <<>>
  /\ native_resources = {}
  /\ kernel_resources = {}
  /\ external_memory = 0
  /\ notify_log = <<>>

InitCpuIdle ==
  /\ native_ctx = <<>>
  /\ ctx_heap = <<>>
  /\ objects = <<>>
  /\ globals = <<>>
  /\ wrappers = <<>>

\* no call of _gum_v8_args_parse is in progress
InitParseIdle ==
  /\ format = <<>>
  /\ tags = <<>>
  /\ info = <<>>
  /\ t = 1
  /\ arg_index = 0
  /\ is_required = TRUE
  /\ slots = <<>>
  /\ scope = GumV8ArgsParseScope
  /\ heap = InitialHeap
  /\ exception = ""
  /\ throws = 0
  /\ parse_pc = "idle"
  /\ parse_result = FALSE
  /\ stop_tag = 0

InitParse ==
  /\ tags \in TagSeqs
  /\ \E sep \in 0..Len(tags) : format = FormatOf(tags, sep)
  /\ info \in ArgSeqsFor(tags)
  /\ t = 1
  /\ arg_index = 0
  /\ is_required = TRUE
  /\ slots = <<>>
  /\ scope = GumV8ArgsParseScope
  /\ heap = InitialHeap
  /\ exception = ""
  /\ throws = 0
  /\ parse_pc = "loop"
  /\ parse_result = FALSE
  /\ stop_tag = 0
  /\ InitRegistryIdle
  /\ InitCpuIdle
  /\ InitValueIdle

arg_count == Len(info)
\* mutant: the argument index is not used, every tag reads the first argument
CurrentArgFirst == IF arg_index < Len(info) THEN info[1] ELSE EmptyLocal
CurrentArg == IF arg_index < arg_count THEN info[arg_index + 1] ELSE EmptyLocal
\* mutant: an undefined argument is not taken as missing
ArgMissingOnlyPastCount == arg_index >= Len(info)
ArgMissing == arg_index >= arg_count \/ IsUndefined(CurrentArg)
\* mutant: the '|' separator is not honoured
MissingArgumentAlwaysError == TRUE
\* if (is_required) ... else break;
MissingArgumentIsError == is_required

\* return FALSE: the scope goes out of scope uncommitted
ReturnFalse(msg, nthrows) ==
  /\ exception' = msg
  /\ throws' = throws + nthrows
  /\ heap' = ScopeDestroy(scope, heap)
  /\ scope' = ScopeFreeLists(scope)
  /\ parse_pc' = "done"
  /\ parse_result' = FALSE
  /\ stop_tag' = arg_index

\* mutant: the '|' separator advances the argument index
ParseSeparatorTakesArgument ==
  /\ parse_pc = "loop" /\ t <= Len(format) /\ format[t] = "|"
  /\ is_required' = FALSE
  /\ t' = t + 1
  /\ arg_index' = arg_index + 1
  /\ UNCHANGED <<format, tags, info, slots, scope, heap, exception,
                 throws, parse_pc, parse_result, stop_tag>>
  /\ UNCHANGED <<resVars, cpuVars, valueVars>>

\* if (*t == '|') { is_required = FALSE; continue; }
ParseSeparator ==
  /\ parse_pc = "loop" /\ t <= Len(format) /\ format[t] = "|"
  /\ is_required' = FALSE
  /\ t' = t + 1
  /\ UNCHANGED <<format, tags, info, arg_index, slots, scope, heap, exception,
                 throws, parse_pc, parse_result, stop_tag>>
  /\ UNCHANGED <<resVars, cpuVars, valueVars>>

\* mutant: an undefined optional argument with arguments supplied after it is
\* an error
ParseMissingArgumentChecksRest ==
  /\ parse_pc = "loop" /\ t <= Len(format) /\ format[t] # "|"
  /\ ArgMissing
  /\ IF MissingArgumentIsError
        \/ \E k \in (arg_index + 2)..Len(info) : ~ IsUndefined(info[k])
     THEN /\ ReturnFalse("missing argument", 1)
          /\ UNCHANGED <<format, tags, info, t, arg_index, is_required, slots>>
     ELSE /\ parse_pc' = "exit"
          /\ UNCHANGED <<format, tags, info, t, arg_index, is_required, slots,
                         scope, heap, exception, throws, parse_result, stop_tag>>
  /\ UNCHANGED <<resVars, cpuVars, valueVars>>

\* the argument of the tag is absent or undefined: an error for a required tag,
\* the end of the scan for an optional one
ParseMissingArgument ==
  /\ parse_pc = "loop" /\ t <= Len(format) /\ format[t] # "|"
  /\ ArgMissing
  /\ IF MissingArgumentIsError
     THEN /\ ReturnFalse("missing argument", 1)
          /\ UNCHANGED <<format, tags, info, t, arg_index, is_required, slots>>
     ELSE /\ parse_pc' = "exit"
          /\ UNCHANGED <<format, tags, info, t, arg_index, is_required, slots,
                         scope, heap, exception, throws, parse_result, stop_tag>>
  /\ UNCHANGED <<resVars, cpuVars, valueVars>>

\* the allocation a successful case stages: a new one, or one more reference
\* to the pattern of a MatchPattern object
StagedId(r) == IF r.pid # 0 THEN r.pid ELSE Len(heap) + 1
StagedHeap(r) ==
  LET h == IF r.pid # 0 THEN gum_match_pattern_ref(heap, r.pid)
           ELSE HeapNew(heap, r.kind, r.c)
  IN [h EXCEPT ![StagedId(r)].st = @ + 1]
WrittenSlots(r) ==
  [i \in 1..Len(r.outs) |->
     IF r.outs[i].a THEN [r.outs[i] EXCEPT !.n = StagedId(r)] ELSE r.outs[i]]

\* one iteration of the loop for a tag whose argument is present
ParseTag ==
  /\ parse_pc = "loop" /\ t <= Len(format) /\ format[t] # "|"
  /\ ~ ArgMissing
  /\ LET r == ParseCase(format, t, CurrentArg)
     IN IF r.ok
        THEN /\ slots' = slots \o WrittenSlots(r)
             /\ heap' = IF r.list = "none" THEN heap ELSE StagedHeap(r)
             /\ scope' = IF r.list = "none" THEN scope
                         ELSE ScopeAdd(scope, r.list, StagedId(r))
             /\ t' = r.t + 1
             /\ arg_index' = arg_index + 1
             /\ UNCHANGED <<format, tags, info, is_required, exception, throws,
                            parse_pc, parse_result, stop_tag>>
        ELSE /\ slots' = slots \o r.outs
             /\ ReturnFalse(r.exc, r.nthrows)
             /\ UNCHANGED <<format, tags, info, t, arg_index, is_required>>
  /\ UNCHANGED <<resVars, cpuVars, valueVars>>

\* after the loop: va_end, scope.commit (), return TRUE
ParseReturn ==
  /\ parse_pc = "exit" \/ (parse_pc = "loop" /\ t > Len(format))
  /\ heap' = ScopeDestroy(ScopeCommit(scope), heap)
  /\ scope' = ScopeFreeLists(ScopeCommit(scope))
  /\ parse_pc' = "done"
  /\ parse_result' = TRUE
  /\ stop_tag' = arg_index
  /\ UNCHANGED <<format, tags, info, t, arg_index, is_required, slots, exception,
                 throws>>
  /\ UNCHANGED <<resVars, cpuVars, valueVars>>

NextParse == ParseSeparator \/ ParseMissingArgument \/ ParseTag \/ ParseReturn

SpecParse == InitParse /\ [][NextParse]_vars

----------------------------------------------------------------------------
(* What a call of _gum_v8_args_parse was given, read off the tags *)

ParseDone == parse_pc = "done"

\* the tag before which the format has its '|' (0: the format has none)
SepOf == CHOOSE sep \in 0..Len(tags) : format = FormatOf(tags, sep)
Required(k) == SepOf = 0 \/ k < SepOf
Present(k) == k <= Len(info) /\ ~ IsUndefined(info[k])

\* the first tag whose argument is absent or undefined (Len(tags) + 1: none)
FirstAbsent ==
  IF \E k \in 1..Len(tags) : ~ Present(k)
  THEN CHOOSE k \in 1..Len(tags) : ~ Present(k) /\ \A j \in 1..(k - 1) : Present(j)
  ELSE Len(tags) + 1

IsRangeValue(v) ==
  /\ v.k = "object"
  /\ HasInstance("NativePointer", GetProperty(v, base_key))
  /\ IsNumber(GetProperty(v, size_key))

IsCallbackValue(v, optional) ==
  IsFunction(v) \/ HasInstance("NativePointer", v) \/ (optional /\ IsUndefined(v))

\* the argument has a type the tag accepts
WellTyped(tok, arg) ==
  CASE tok = <<"i">> -> arg.k \in {"number", "bigint"} /\ arg.d = 0
                        /\ arg.n >= G_MININT /\ arg.n <= G_MAXINT
    [] tok = <<"s", "?">> -> IsString(arg) \/ IsNull(arg)
    [] tok = <<"R">> ->
         IsRangeValue(arg)
         \/ (IsArray(arg) /\ \A i \in 1..Len(arg.e) : IsRangeValue(arg.e[i]))
    [] tok = <<"B", "~", "?">> ->
         IsString(arg) \/ IsNull(arg) \/ IsArrayBuffer(arg) \/ IsArrayBufferView(arg)
         \/ (IsArray(arg) /\ \A i \in 1..Len(arg.e) : IsNumber(arg.e[i]))
    [] tok = <<"M">> ->
         HasInstance("MatchPattern", arg)
         \/ (IsString(arg) /\ gum_match_pattern_new_from_string(arg.s).ok)
    [] tok = <<"C">> -> HasInstance("CpuContext", arg)
    [] tok = <<"r">> -> IsRangeValue(arg)
    [] tok = <<"F", "*", "{", "a", ",", "b", "?", "}">> ->
         /\ arg.k = "object"
         /\ IsCallbackValue(GetProperty(arg, <<"a">>), FALSE)
         /\ IsCallbackValue(GetProperty(arg, <<"b">>), TRUE)

\* what an output slot holds.  k: its C type; n, m: native words; j: a Local;
\* c: the content of the allocation it points to; p: the pattern of a
\* MatchPattern object it points to
Holds(k, n, m, j, c, p) == [k |-> k, n |-> n, m |-> m, j |-> j, c |-> c, p |-> p]

CallbackHeld(v) ==
  << Holds("Local<Function>", 0, 0, IF IsFunction(v) THEN v ELSE EmptyLocal, <<>>, 0),
     Holds("gpointer", IF HasInstance("NativePointer", v) THEN v.n ELSE 0, 0,
           EmptyLocal, <<>>, 0) >>

\* the native conversion of an argument for a tag, slot by slot
NativeConversion(tok, arg) ==
  CASE tok = <<"i">> -> <<Holds("gint", arg.n, 0, EmptyLocal, <<>>, 0)>>
    [] tok = <<"s", "?">> ->
         <<Holds("gchar *", 0, 0, EmptyLocal, arg.s, 0)>>
    [] tok = <<"R">> ->
         <<Holds("GArray *", 0, 0, EmptyLocal,
                 IF IsArray(arg)
                 THEN [i \in 1..Len(arg.e) |->
                         <<GetProperty(arg.e[i], base_key).n,
                           GetProperty(arg.e[i], size_key).n>>]
                 ELSE <<<<GetProperty(arg, base_key).n, GetProperty(arg, size_key).n>>>>,
                 0)>>
    [] tok = <<"B", "~", "?">> ->
         <<Holds("GBytes *", 0, 0, EmptyLocal,
                 IF IsString(arg) THEN [i \in 1..Len(arg.s) |-> CharCode(arg.s[i])]
                 ELSE IF IsArray(arg) THEN [i \in 1..Len(arg.e) |-> arg.e[i].n]
                 ELSE arg.e,
                 0)>>
    [] tok = <<"M">> ->
         <<Holds("GumMatchPattern *", 0, 0, EmptyLocal,
                 IF IsString(arg) THEN arg.s ELSE InitialHeap[arg.n].c,
                 IF IsString(arg) THEN 0 ELSE arg.n)>>
    [] tok = <<"C">> -> <<Holds("GumCpuContext *", arg.n, 0, EmptyLocal, <<>>, 0)>>
    [] tok = <<"r">> ->
         <<Holds("GumMemoryRange", GetProperty(arg, base_key).n,
                 GetProperty(arg, size_key).n, EmptyLocal, <<>>, 0)>>
    [] tok = <<"F", "*", "{", "a", ",", "b", "?", "}">> ->
         CallbackHeld(GetProperty(arg, <<"a">>))
         \o CallbackHeld(GetProperty(arg, <<"b">>))

\* the conversions of the first k arguments, in format order
RECURSIVE ExpectedSlots(_)
ExpectedSlots(k) ==
  IF k = 0 THEN <<>>
  ELSE ExpectedSlots(k - 1) \o NativeConversion(tags[k], info[k])

WellTypedUpTo(k) == \A i \in 1..k : WellTyped(tags[i], info[i])

\* slot sl, as written by the call, holds x
SlotHolds(sl, x) ==
  /\ sl.w
  /\ sl.k = x.k
  /\ sl.m = x.m
  /\ sl.j = x.j
  /\ IF sl.a
     THEN /\ x.n = 0
          /\ heap[sl.n].c = x.c
          /\ IF x.p # 0 THEN sl.n = x.p ELSE sl.n > Len(InitialHeap)
     ELSE sl.n = x.n /\ x.c = <<>> /\ x.p = 0

\* the slots from number from on are the sequence xs
SlotsHold(from, xs) ==
  /\ Len(slots) = from - 1 + Len(xs)
  /\ \A i \in 1..Len(xs) : SlotHolds(slots[from - 1 + i], xs[i])

\* the parse reaches tag k: the arguments of all tags before it are supplied
\* and well-typed
Reaches(k) == FirstAbsent >= k /\ WellTypedUpTo(k - 1)

\* the most slots one tag takes from the va_list
SlotCount(tok) == IF tok[1] = "F" THEN 4 ELSE 1

----------------------------------------------------------------------------
(* Claims about _gum_v8_args_parse, checked under SpecParse *)

ParseFailed == ParseDone /\ ~ parse_result
ParseSucceeded == ParseDone /\ parse_result

\* C1: when the parse fails at a tag, every allocation the scope staged for the
\* tags before it has been released exactly once, by the release function of
\* its kind; none remains allocated, and the pattern of a MatchPattern object
\* has the references it had before the call.
C1_FailureReleasesStaged ==
  ParseFailed =>
    \A id \in 1..Len(heap) :
      /\ ~ heap[id].bad
      /\ heap[id].rel = heap[id].st
      /\ id > Len(InitialHeap) => heap[id].rc = 0 /\ heap[id].st = 1
      /\ id <= Len(InitialHeap) => heap[id].rc = InitialHeap[id].rc

\* a parse that failed at its second tag after the first tag staged a new
\* allocation, which was released
C1_Witness ==
  /\ ParseFailed
  /\ stop_tag = 1
  /\ \E id \in 1..Len(heap) :
       id > Len(InitialHeap) /\ heap[id].st = 1 /\ heap[id].rel = 1 /\ heap[id].rc = 0

\* C6: when every tag up to the first absent optional one has a well-typed
\* argument (so every required tag is satisfied), the parse succeeds without
\* an exception and the slots hold, in format order, the native conversions of
\* the arguments of those tags.
C6_WellTypedParseConverts ==
  (ParseDone /\ Reaches(FirstAbsent)
     /\ (FirstAbsent > Len(tags) \/ ~ Required(FirstAbsent))) =>
    /\ parse_result
    /\ exception = ""
    /\ stop_tag = FirstAbsent - 1
    /\ SlotsHold(1, ExpectedSlots(FirstAbsent - 1))

\* a successful parse of two tags, the second of which wrote a pointer to an
\* allocation
C6_Witness ==
  /\ ParseSucceeded
  /\ Len(tags) = 2 /\ FirstAbsent = 3 /\ WellTypedUpTo(2)
  /\ Len(slots) >= 2
  /\ slots[Len(slots)].a

\* C7 as stated: when the argument of the first unsatisfied required tag is
\* absent, the parse fails with 'missing argument' and no output slot has been
\* written.
C7_NoSlotWritten ==
  (ParseDone /\ FirstAbsent <= Len(tags) /\ Required(FirstAbsent)
     /\ Reaches(FirstAbsent)) =>
    /\ ~ parse_result
    /\ exception = "missing argument"
    /\ Len(slots) = 0

\* C7 amended: when the argument of the first unsatisfied required tag is
\* absent, the parse fails with 'missing argument'; the slots of the tags
\* before it have been written and no slot of that tag or of a later tag has.
C7_MissingRequiredArgument ==
  (ParseDone /\ FirstAbsent <= Len(tags) /\ Required(FirstAbsent)
     /\ Reaches(FirstAbsent)) =>
    /\ ~ parse_result
    /\ exception = "missing argument"
    /\ throws = 1
    /\ stop_tag = FirstAbsent - 1
    /\ SlotsHold(1, ExpectedSlots(FirstAbsent - 1))

\* a parse that failed on the missing argument of its second tag after the
\* first tag wrote its slot
C7_Witness ==
  /\ ParseFailed
  /\ FirstAbsent = 2 /\ Required(2) /\ Reaches(2)
  /\ exception = "missing argument"
  /\ Len(slots) >= 1 /\ slots[1].w

\* C8: a parse that reports failure has raised an exception and stopped at the
\* failing tag: the slots of the tags before it are written, at most the
\* failing tag's own slots follow, and no argument after it was converted.  A
\* parse that reports success has raised no exception.
C8_FailureRaisesAndStops ==
  /\ ParseFailed =>
       /\ exception # ""
       /\ throws >= 1
       /\ stop_tag < Len(tags)
       /\ arg_index = stop_tag
       /\ Len(slots) >= Len(ExpectedSlots(stop_tag))
       /\ Len(slots) <= Len(ExpectedSlots(stop_tag)) + SlotCount(tags[stop_tag + 1])
       /\ \A i \in 1..Len(ExpectedSlots(stop_tag)) :
            SlotHolds(slots[i], ExpectedSlots(stop_tag)[i])
  /\ ParseSucceeded => exception = "" /\ throws = 0

\* a parse whose first tag failed its conversion although a later argument
\* was supplied
C8_Witness ==
  /\ ParseFailed
  /\ stop_tag = 0
  /\ Len(tags) = 2 /\ Len(info) = 2 /\ Present(1) /\ Present(2)
  /\ exception # "missing argument"

\* C9: the scope is committed only by a parse that succeeds, which happens
\* only at the end of the format or at a missing optional argument; a
\* committed scope has released nothing, so every pointer written to a slot
\* refers to a live allocation after the call.
C9_CommitOnlyOnSuccess ==
  /\ scope.committed => ParseSucceeded
  /\ ParseFailed => ~ scope.committed
  /\ ParseSucceeded =>
       /\ scope.committed
       /\ t > Len(format) \/ (ArgMissing /\ ~ is_required)
       /\ \A id \in 1..Len(heap) : heap[id].rel = 0 /\ ~ heap[id].bad
       /\ \A i \in 1..Len(slots) :
            slots[i].a => heap[slots[i].n].rc > 0 /\ heap[slots[i].n].st >= 1

\* a successful parse that wrote a pointer to a new allocation and a pointer
\* to the pattern of a MatchPattern object
C9_Witness ==
  /\ ParseSucceeded
  /\ \E i \in 1..Len(slots) : slots[i].a /\ slots[i].n > Len(InitialHeap)
  /\ \E i \in 1..Len(slots) : slots[i].a /\ slots[i].n <= Len(InitialHeap)

\* C10: when the parse reaches a tag after '|' whose argument is absent or
\* undefined, it stops without raising an exception and returns success; the
\* slots of the tags before it hold their conversions and no slot of that tag
\* or of a later tag is written.
C10_MissingOptionalStops ==
  (ParseDone /\ FirstAbsent <= Len(tags) /\ ~ Required(FirstAbsent)
     /\ Reaches(FirstAbsent)) =>
    /\ parse_result
    /\ exception = "" /\ throws = 0
    /\ stop_tag = FirstAbsent - 1
    /\ SlotsHold(1, ExpectedSlots(FirstAbsent - 1))

\* a parse that stopped at the undefined argument of its optional second tag
\* although the format had not ended
C10_Witness ==
  /\ ParseSucceeded
  /\ FirstAbsent = 2 /\ ~ Required(2) /\ Reaches(2)
  /\ Len(info) >= 2
  /\ t <= Len(format)
  /\ Len(slots) >= 1

----------------------------------------------------------------------------
(* The registry of native and kernel resources *)

\* the addresses resources are registered with
Addresses == {16, 32}
Sizes == 0..MaxSize

\* a GumV8NativeResource / GumV8KernelResource.  instance: "weak" while the
\* Global of the script object exists, "deleted" after delete; notify: whether
\* a destructor was given; freed: times the record was given to g_slice_free;
\* wn: weak notifications the engine delivered for its Global
GumV8Resource(variant, data, size, notify) ==
  [variant |-> variant, instance |-> "weak", data |-> data, size |-> size,
   notify |-> notify, freed |-> 0, wn |-> 0]

\* what the free functions act on: the records, the engine's accounting of
\* external memory and the log of destructor calls
Registry ==
  [resources |-> resources, external_memory |-> external_memory,
   notify_log |-> notify_log]

ResourceIds(variant) ==
  {id \in 1..Len(resources) : resources[id].variant = variant}

\* mutant: the size is not reported to the engine
NativeResourceNewUnreported(data, size, notify) ==
  /\ Len(resources) < MaxResources
  /\ resources' = Append(resources, GumV8Resource("native", data, size, notify))
  /\ native_resources' = native_resources \cup {Len(resources) + 1}
  /\ UNCHANGED <<kernel_resources, notify_log, external_memory>>
  /\ UNCHANGED <<parseVars, cpuVars, valueVars>>

_gum_v8_native_resource_new(data, size, notify) ==
  /\ Len(resources) < MaxResources
  /\ resources' = Append(resources, GumV8Resource("native", data, size, notify))
  /\ external_memory' = external_memory + size
  /\ native_resources' = native_resources \cup {Len(resources) + 1}
  /\ UNCHANGED <<kernel_resources, notify_log>>
  /\ UNCHANGED <<parseVars, cpuVars, valueVars>>

\* mutant: the Global of the script object is not deleted
NativeResourceFreeKeepsInstance(reg, id) ==
  [reg EXCEPT !.external_memory = @ - reg.resources[id].size,
              !.resources[id].freed = @ + 1,
              !.notify_log = IF reg.resources[id].notify
                             THEN Append(@, [id |-> id, data |-> reg.resources[id].data])
                             ELSE @]

_gum_v8_native_resource_free(reg, id) ==
  [reg EXCEPT !.external_memory = @ - reg.resources[id].size,
              !.resources[id].instance = "deleted",
              !.resources[id].freed = @ + 1,
              !.notify_log = IF reg.resources[id].notify
                             THEN Append(@, [id |-> id, data |-> reg.resources[id].data])
                             ELSE @]

\* the value destroy function core->native_resources is created with
NativeResourcesDestroy(reg, id) == _gum_v8_native_resource_free(reg, id)

\* the engine found the script object unreachable: g_hash_table_remove
gum_v8_native_resource_on_weak_notify(id) ==
  /\ id \in ResourceIds("native")
  /\ resources[id].instance = "weak" /\ resources[id].wn = 0
  /\ native_resources' = native_resources \ {id}
  /\ LET reg == IF id \in native_resources THEN NativeResourcesDestroy(Registry, id)
                ELSE Registry
     IN /\ resources' = [reg.resources EXCEPT ![id].wn = @ + 1]
        /\ external_memory' = reg.external_memory
        /\ notify_log' = reg.notify_log
  /\ UNCHANGED kernel_resources
  /\ UNCHANGED <<parseVars, cpuVars, valueVars>>

\* other code calls the exported _gum_v8_native_resource_free on a record it holds
NativeResourceFree(id) ==
  /\ id \in ResourceIds("native")
  /\ resources[id].freed = 0
  /\ LET reg == _gum_v8_native_resource_free(Registry, id)
     IN /\ resources' = reg.resources
        /\ external_memory' = reg.external_memory
        /\ notify_log' = reg.notify_log
  /\ UNCHANGED <<native_resources, kernel_resources>>
  /\ UNCHANGED <<parseVars, cpuVars, valueVars>>

_gum_v8_kernel_resource_new(data, size, notify) ==
  /\ Len(resources) < MaxResources
  /\ resources' = Append(resources, GumV8Resource("kernel", data, size, notify))
  /\ external_memory' = external_memory + size
  /\ kernel_resources' = kernel_resources \cup {Len(resources) + 1}
  /\ UNCHANGED <<native_resources, notify_log>>
  /\ UNCHANGED <<parseVars, cpuVars, valueVars>>

\* mutant: the accounting of external memory is not decreased
KernelResourceFreeKeepsAccounting(reg, id) ==
  [reg EXCEPT !.resources[id].instance = "deleted",
              !.resources[id].freed = @ + 1,
              !.notify_log = IF reg.resources[id].notify
                             THEN Append(@, [id |-> id, data |-> reg.resources[id].data])
                             ELSE @]

_gum_v8_kernel_resource_free(reg, id) ==
  [reg EXCEPT !.external_memory = @ - reg.resources[id].size,
              !.resources[id].instance = "deleted",
              !.resources[id].freed = @ + 1,
              !.notify_log = IF reg.resources[id].notify
                             THEN Append(@, [id |-> id, data |-> reg.resources[id].data])
                             ELSE @]

\* the value destroy function core->kernel_resources is created with
KernelResourcesDestroy(reg, id) == _gum_v8_kernel_resource_free(reg, id)

gum_v8_kernel_resource_on_weak_notify(id) ==
  /\ id \in ResourceIds("kernel")
  /\ resources[id].instance = "weak" /\ resources[id].wn = 0
  /\ kernel_resources' = kernel_resources \ {id}
  /\ LET reg == IF id \in kernel_resources THEN KernelResourcesDestroy(Registry, id)
                ELSE Registry
     IN /\ resources' = [reg.resources EXCEPT ![id].wn = @ + 1]
        /\ external_memory' = reg.external_memory
        /\ notify_log' = reg.notify_log
  /\ UNCHANGED native_resources
  /\ UNCHANGED <<parseVars, cpuVars, valueVars>>

\* other code calls the exported _gum_v8_kernel_resource_free on a record it holds
KernelResourceFree(id) ==
  /\ id \in ResourceIds("kernel")
  /\ resources[id].freed = 0
  /\ LET reg == _gum_v8_kernel_resource_free(Registry, id)
     IN /\ resources' = reg.resources
        /\ external_memory' = reg.external_memory
        /\ notify_log' = reg.notify_log
  /\ UNCHANGED <<native_resources, kernel_resources>>
  /\ UNCHANGED <<parseVars, cpuVars, valueVars>>

InitRegistry == InitParseIdle /\ InitRegistryIdle /\ InitCpuIdle /\ InitValueIdle

NextRegistry ==
  \/ \E data \in Addresses, size \in Sizes, notify \in BOOLEAN :
       _gum_v8_native_resource_new(data, size, notify)
  \/ \E data \in Addresses, size \in Sizes, notify \in BOOLEAN :
       _gum_v8_kernel_resource_new(data, size, notify)
  \/ \E id \in 1..Len(resources) : gum_v8_native_resource_on_weak_notify(id)
  \/ \E id \in 1..Len(resources) : gum_v8_kernel_resource_on_weak_notify(id)
  \/ \E id \in 1..Len(resources) : NativeResourceFree(id)
  \/ \E id \in 1..Len(resources) : KernelResourceFree(id)

SpecRegistry == InitRegistry /\ [][NextRegistry]_vars

----------------------------------------------------------------------------
(* Claims about the registry, checked under SpecRegistry *)

\* the tracking set of a record's variant
TrackingSet(variant) ==
  IF variant = "native" THEN native_resources ELSE kernel_resources

\* the destructor calls logged for record id
DestructorCalls(id) == SelectSeq(notify_log, LAMBDA e : e.id = id)

\* the sizes of the first n records that have not been released, summed
RECURSIVE RegisteredSize(_)
RegisteredSize(n) ==
  IF n = 0 THEN 0
  ELSE RegisteredSize(n - 1) + (IF resources[n].freed = 0 THEN resources[n].size ELSE 0)

\* the record was released in full exactly once
ReleasedOnce(id) ==
  /\ resources[id].freed = 1
  /\ resources[id].instance = "deleted"
  /\ DestructorCalls(id) =
       IF resources[id].notify THEN <<[id |-> id, data |-> resources[id].data]>>
       ELSE <<>>

Unreleased(id) ==
  /\ resources[id].freed = 0
  /\ resources[id].instance = "weak"
  /\ DestructorCalls(id) = <<>>

C3_RegisterAndFinalize ==
  /\ external_memory = RegisteredSize(Len(resources))
  /\ native_resources \subseteq ResourceIds("native")
  /\ kernel_resources \subseteq ResourceIds("kernel")
  /\ \A id \in 1..Len(resources) :
       /\ Unreleased(id) => id \in TrackingSet(resources[id].variant)
       /\ resources[id].wn = 1 =>
            /\ resources[id].freed = 1
            /\ Len(DestructorCalls(id)) = (IF resources[id].notify THEN 1 ELSE 0)
            /\ \A i \in 1..Len(DestructorCalls(id)) :
                 DestructorCalls(id)[i].data = resources[id].data
            /\ id \notin native_resources \cup kernel_resources

\* a native and a kernel record, both of size above zero and with a
\* destructor, both finalized, the accounting back at zero
C3_Witness ==
  /\ external_memory = 0
  /\ \E a \in ResourceIds("native"), b \in ResourceIds("kernel") :
       /\ resources[a].wn = 1 /\ resources[a].size > 0 /\ resources[a].notify
       /\ resources[b].wn = 1 /\ resources[b].size > 0 /\ resources[b].notify
       /\ Len(notify_log) = 2

----------------------------------------------------------------------------
(* The lifecycle of CpuContext objects *)

\* the fields of a GumCpuContext
Registers == {"pc", "sp"}
\* a register holds one of two values
RegValues == {0, 1}
GumCpuContext == [Registers -> RegValues]
ZeroContext == [r \in Registers |-> 0]

\* internal field 0 of a CpuContext object: a pointer to a structure of the
\* instrumentation engine ("native") or to a g_slice copy ("heap")
Pointer(space, id) == [space |-> space, id |-> id]

\* a CpuContext object.  reachable: script code holds a reference; origin: the
\* engine's structure it was created for; retained: free_later was called for
\* it; snap: the registers at the time of the first such call; thrown: it is
\* the context of an exception ThrowException handed to script code
CpuContextObject(c, is_mutable) ==
  [field0 |-> Pointer("native", c), is_mutable |-> is_mutable, reachable |-> TRUE,
   origin |-> c, retained |-> FALSE, snap |-> ZeroContext, thrown |-> FALSE]

\* the structure a pointer refers to is allocated
PointerValid(p) ==
  IF p.space = "native" THEN native_ctx[p.id].live ELSE ctx_heap[p.id].freed = 0

\* the structures a read through the pointer can yield: the structure it
\* refers to, or anything at all when that structure is gone
Dereference(p) ==
  IF ~ PointerValid(p) THEN GumCpuContext
  ELSE IF p.space = "native" THEN {native_ctx[p.id].regs}
  ELSE {ctx_heap[p.id].regs}

\* GUMJS_CPU_CONTEXT_VALUE: what script code reads through the object
ReadRegisters(o) == Dereference(objects[o].field0)

\* the engine keeps the object alive: script code or a strong Global refers to it
ObjectAlive(o) ==
  \/ objects[o].reachable
  \/ \E g \in 1..Len(globals) : globals[g].object = o /\ globals[g].state = "strong"

\* the instrumentation engine reports the event the model follows, with its
\* register structure
NativeEvent(regs) ==
  /\ native_ctx = <<>>
  /\ native_ctx' = Append(native_ctx, [regs |-> regs, live |-> TRUE])
  /\ UNCHANGED <<ctx_heap, objects, globals, wrappers>>
  /\ UNCHANGED <<parseVars, resVars, valueVars>>

\* the engine changes a register of a structure it owns
NativeChange(c, r, v) ==
  /\ c \in 1..Len(native_ctx) /\ native_ctx[c].live
  /\ native_ctx[c].regs[r] # v
  /\ native_ctx' = [native_ctx EXCEPT ![c].regs[r] = v]
  /\ UNCHANGED <<ctx_heap, objects, globals, wrappers>>
  /\ UNCHANGED <<parseVars, resVars, valueVars>>

\* the event is over: the engine tears the structure down
NativeTeardown(c) ==
  /\ c \in 1..Len(native_ctx) /\ native_ctx[c].live
  /\ native_ctx' = [native_ctx EXCEPT ![c].live = FALSE]
  /\ UNCHANGED <<ctx_heap, objects, globals, wrappers>>
  /\ UNCHANGED <<parseVars, resVars, valueVars>>

_gum_v8_cpu_context_new_immutable(c) ==
  /\ c \in 1..Len(native_ctx) /\ native_ctx[c].live
  /\ Len(objects) < MaxObjects
  /\ objects' = Append(objects, CpuContextObject(c, FALSE))
  /\ UNCHANGED <<native_ctx, ctx_heap, globals, wrappers>>
  /\ UNCHANGED <<parseVars, resVars, valueVars>>

\* mutant: the structure is duplicated when the object is created
NewMutableCopies(c) ==
  /\ c \in 1..Len(native_ctx) /\ native_ctx[c].live
  /\ Len(objects) < MaxObjects
  /\ ctx_heap' = Append(ctx_heap, [regs |-> native_ctx[c].regs, freed |-> 0])
  /\ objects' = Append(objects, [CpuContextObject(c, TRUE) EXCEPT
                                   !.field0 = Pointer("heap", Len(ctx_heap) + 1)])
  /\ UNCHANGED <<native_ctx, globals, wrappers>>
  /\ UNCHANGED <<parseVars, resVars, valueVars>>

_gum_v8_cpu_context_new_mutable(c) ==
  /\ c \in 1..Len(native_ctx) /\ native_ctx[c].live
  /\ Len(objects) < MaxObjects
  /\ objects' = Append(objects, CpuContextObject(c, TRUE))
  /\ UNCHANGED <<native_ctx, ctx_heap, globals, wrappers>>
  /\ UNCHANGED <<parseVars, resVars, valueVars>>

\* new Global<Object> (core->isolate, context): a strong handle to the object,
\* owned by the caller until it is given to free_later
GlobalNew(o) ==
  /\ o \in 1..Len(objects) /\ ObjectAlive(o)
  /\ Len(globals) < MaxGlobals
  /\ globals' = Append(globals, [object |-> o, state |-> "strong", wrapper |-> 0])
  /\ UNCHANGED <<native_ctx, ctx_heap, objects, wrappers>>
  /\ UNCHANGED <<parseVars, resVars, valueVars>>

\* mutant: internal field 0 is left pointing to the original
InstanceKeepsOriginal(instance, copy) ==
  [instance EXCEPT !.is_mutable = FALSE]

\* the object after free_later: field 0 points to the copy, field 1 is false
InstanceAfterFreeLater(instance, copy) ==
  [instance EXCEPT !.field0 = Pointer("heap", copy), !.is_mutable = FALSE]

\* cpu_context: a Global the caller owns; ownership passes to the wrapper
_gum_v8_cpu_context_free_later(cpu_context) ==
  /\ cpu_context \in 1..Len(globals) /\ globals[cpu_context].state = "strong"
  /\ LET instance == globals[cpu_context].object
         copy == Len(ctx_heap) + 1
         wrapper == Len(wrappers) + 1
     IN \E original \in Dereference(objects[instance].field0) :
          /\ ctx_heap' = Append(ctx_heap, [regs |-> original, freed |-> 0])
          /\ objects' =
               [objects EXCEPT
                  ![instance] =
                    [InstanceAfterFreeLater(@, copy) EXCEPT
                       !.retained = TRUE,
                       !.snap = IF objects[instance].retained THEN @ ELSE original]]
          /\ wrappers' = Append(wrappers, [instance |-> cpu_context,
                                           cpu_context |-> copy, freed |-> 0])
          /\ globals' = [globals EXCEPT ![cpu_context].state = "weak",
                                        ![cpu_context].wrapper = wrapper]
  /\ UNCHANGED native_ctx
  /\ UNCHANGED <<parseVars, resVars, valueVars>>

\* the context object _gum_v8_parse_exception_details sets on the exception:
\* mutable, field 0 pointing to the context of the exception details
ExceptionContext(c) == CpuContextObject(c, TRUE)

\* mutant: the exception is thrown with the context object as it was created
ThrowNativeWithoutFreeLater(c) ==
  /\ c \in 1..Len(native_ctx) /\ native_ctx[c].live
  /\ Len(objects) < MaxObjects /\ Len(globals) < MaxGlobals
  /\ objects' = Append(objects, [ExceptionContext(c) EXCEPT !.thrown = TRUE])
  /\ UNCHANGED <<native_ctx, ctx_heap, globals, wrappers>>
  /\ UNCHANGED <<parseVars, resVars, valueVars>>

\* _gum_v8_parse_exception_details makes the exception with a mutable context
\* object; the object is given to free_later with a new Global, which copies
\* the registers, points field 0 to the copy and clears the mutable flag;
\* then ThrowException hands the exception to script code
_gum_v8_throw_native(c) ==
  /\ c \in 1..Len(native_ctx) /\ native_ctx[c].live
  /\ Len(objects) < MaxObjects /\ Len(globals) < MaxGlobals
  /\ LET instance == Len(objects) + 1
         cpu_context == Len(globals) + 1
         copy == Len(ctx_heap) + 1
         wrapper == Len(wrappers) + 1
         original == native_ctx[c].regs
     IN /\ ctx_heap' = Append(ctx_heap, [regs |-> original, freed |-> 0])
        /\ objects' =
             Append(objects,
                    [InstanceAfterFreeLater(ExceptionContext(c), copy) EXCEPT
                       !.retained = TRUE, !.snap = original, !.thrown = TRUE])
        /\ wrappers' = Append(wrappers, [instance |-> cpu_context,
                                         cpu_context |-> copy, freed |-> 0])
        /\ globals' = Append(globals, [object |-> instance, state |-> "weak",
                                       wrapper |-> wrapper])
  /\ UNCHANGED native_ctx
  /\ UNCHANGED <<parseVars, resVars, valueVars>>

\* script code lets go of its last reference to the object
ScriptDrops(o) ==
  /\ o \in 1..Len(objects) /\ objects[o].reachable
  /\ objects' = [objects EXCEPT ![o].reachable = FALSE]
  /\ UNCHANGED <<native_ctx, ctx_heap, globals, wrappers>>
  /\ UNCHANGED <<parseVars, resVars, valueVars>>

\* mutant: the copy of the register structure is not freed
WeakNotifyKeepsCopy(g) ==
  /\ g \in 1..Len(globals) /\ globals[g].state = "weak"
  /\ ~ ObjectAlive(globals[g].object)
  /\ globals' = [globals EXCEPT ![g].state = "deleted"]
  /\ wrappers' = [wrappers EXCEPT ![globals[g].wrapper].freed = @ + 1]
  /\ UNCHANGED <<native_ctx, objects, ctx_heap>>
  /\ UNCHANGED <<parseVars, resVars, valueVars>>

\* the engine found the object of weak Global g unreachable
gum_cpu_context_on_weak_notify(g) ==
  /\ g \in 1..Len(globals) /\ globals[g].state = "weak"
  /\ ~ ObjectAlive(globals[g].object)
  /\ globals' = [globals EXCEPT ![g].state = "deleted"]
  /\ ctx_heap' = [ctx_heap EXCEPT ![wrappers[globals[g].wrapper].cpu_context].freed = @ + 1]
  /\ wrappers' = [wrappers EXCEPT ![globals[g].wrapper].freed = @ + 1]
  /\ UNCHANGED <<native_ctx, objects>>
  /\ UNCHANGED <<parseVars, resVars, valueVars>>

InitCpu == InitParseIdle /\ InitRegistryIdle /\ InitCpuIdle /\ InitValueIdle

NextCpu ==
  \/ \E regs \in GumCpuContext : NativeEvent(regs)
  \/ \E c \in 1..Len(native_ctx), r \in Registers, v \in RegValues :
       NativeChange(c, r, v)
  \/ \E c \in 1..Len(native_ctx) : NativeTeardown(c)
  \/ \E c \in 1..Len(native_ctx) : _gum_v8_cpu_context_new_immutable(c)
  \/ \E c \in 1..Len(native_ctx) : _gum_v8_cpu_context_new_mutable(c)
  \/ \E c \in 1..Len(native_ctx) : _gum_v8_throw_native(c)
  \/ \E o \in 1..Len(objects) : GlobalNew(o)
  \/ \E g \in 1..Len(globals) : _gum_v8_cpu_context_free_later(g)
  \/ \E o \in 1..Len(objects) : ScriptDrops(o)
  \/ \E g \in 1..Len(globals) : gum_cpu_context_on_weak_notify(g)

SpecCpu == InitCpu /\ [][NextCpu]_vars

----------------------------------------------------------------------------
(* Claims about CpuContext objects, checked under SpecCpu *)

\* C4: once free_later was called for an object, every read of its registers
\* through the object, for as long as the object can be reached, yields the
\* registers as they were when the call copied them, whatever the engine has
\* done to its own structure since; the object is immutable.
C4_RetainedSnapshotIsStable ==
  \A o \in 1..Len(objects) :
    (objects[o].retained /\ ObjectAlive(o)) =>
      /\ ReadRegisters(o) = {objects[o].snap}
      /\ PointerValid(objects[o].field0)
      /\ ~ objects[o].is_mutable

\* a retained object still reachable after the engine changed the registers
\* of the structure it was created for and tore it down
C4_Witness ==
  \E o \in 1..Len(objects) :
    /\ objects[o].retained /\ objects[o].reachable
    /\ ~ native_ctx[objects[o].origin].live
    /\ native_ctx[objects[o].origin].regs # objects[o].snap

\* the wrappers made for copy h
WrappersOf(h) == {w \in 1..Len(wrappers) : wrappers[w].cpu_context = h}

----------------------------------------------------------------------------
(* _gum_v8_args_parse: calls that exercise the modifiers of the tags *)

\* tags with each of the modifiers '~', '?', '*' and the forms of the
\* callback tag
ScanTokens ==
  { <<"i">>, <<"q", "~">>, <<"p", "~">>, <<"s", "?">>, <<"O", "?">>,
    <<"B", "~", "?">>, <<"C", "?">>, <<"F">>, <<"F", "*">>, <<"F", "?">>,
    <<"F", "{", "a", "}">>, <<"F", "*", "{", "a", ",", "b", "?", "}">> }

\* one argument the tag accepts, and undefined
ScanArgsFor(tok) ==
  CASE tok = <<"i">> -> {Number(3), Undefined}
    [] tok = <<"q", "~">> -> {String(<<"1", "2">>), Undefined}
    [] tok = <<"p", "~">> -> {String(<<"0", "x", "1", "0">>), Undefined}
    [] tok = <<"s", "?">> -> {Null, Undefined}
    [] tok = <<"O", "?">> -> {RangeObject, Undefined}
    [] tok = <<"B", "~", "?">> -> {String(<<"a">>), Undefined}
    [] tok = <<"C", "?">> -> {CpuContextValue(1), Undefined}
    [] tok = <<"F">> -> {Function(1), Undefined}
    [] tok = <<"F", "*">> -> {NativePointerValue(9), Undefined}
    [] tok = <<"F", "?">> -> {Null, Undefined}
    [] tok = <<"F", "{", "a", "}">> -> {CallbacksObject, Undefined}
    [] tok = <<"F", "*", "{", "a", ",", "b", "?", "}">> ->
         {PointerCallbacksObject, Undefined}

ScanTagSeqs == UNION {[1..n -> ScanTokens] : n \in 0..MaxTags}

ScanArgSeqsFor(toks) ==
  UNION {{a \in [1..n -> UNION {ScanArgsFor(tok) : tok \in ScanTokens}] :
            \A i \in 1..n : a[i] \in ScanArgsFor(toks[i])} : n \in 0..Len(toks)}

InitScan ==
  /\ tags \in ScanTagSeqs
  /\ \E sep \in 0..Len(tags) : format = FormatOf(tags, sep)
  /\ info \in ScanArgSeqsFor(tags)
  /\ t = 1
  /\ arg_index = 0
  /\ is_required = TRUE
  /\ slots = <<>>
  /\ scope = GumV8ArgsParseScope
  /\ heap = InitialHeap
  /\ exception = ""
  /\ throws = 0
  /\ parse_pc = "loop"
  /\ parse_result = FALSE
  /\ stop_tag = 0
  /\ InitRegistryIdle
  /\ InitCpuIdle
  /\ InitValueIdle

SpecScan == InitScan /\ [][NextParse]_vars

----------------------------------------------------------------------------
(* Claims about the scan of the format, checked under SpecScan *)

\* the number of times ch occurs in token tok
Occurrences(tok, ch) == Cardinality({i \in 1..Len(tok) : tok[i] = ch})

\* the slots a processed tag takes: one, but for the callback tag one per
\* name of its list, and twice as many with '*'
SlotsOfTag(tok) ==
  IF tok[1] # "F" THEN 1
  ELSE (IF Occurrences(tok, "{") = 1 THEN Occurrences(tok, ",") + 1 ELSE 1)
       * (IF Occurrences(tok, "*") = 1 THEN 2 ELSE 1)

RECURSIVE SlotsOfTags(_)
SlotsOfTags(k) == IF k = 0 THEN 0 ELSE SlotsOfTags(k - 1) + SlotsOfTag(tags[k])

\* the index in the format of the first character of tag k (of the end of
\* the format for k = Len(tags) + 1)
StartOf(k) ==
  1 + Len(Concat(SubSeq(tags, 1, k - 1)))
    + (IF SepOf # 0 /\ (SepOf <= k \/ k > Len(tags)) THEN 1 ELSE 0)

\* the parse stands between two tags, or has returned success
BetweenTags == parse_pc \in {"loop", "exit"} \/ ParseSucceeded

\* C11 as stated: the number of slots consumed equals the number of tags
\* processed so far.
C11_OneSlotPerTag == BetweenTags => Len(slots) = arg_index

\* C11 amended: the number of slots consumed equals the sum, over the tags
\* processed so far, of the slots each takes: one for every tag but the
\* callback tag, which takes one per listed name (one without a list) and
\* twice that with '*'.
C11_SlotsPerTag == BetweenTags => Len(slots) = SlotsOfTags(arg_index)

\* a successful parse of 'F*' followed by a list of one name: three slots
\* for two tags
C11_Witness ==
  /\ ParseSucceeded
  /\ tags = << <<"F", "*">>, <<"F", "{", "a", "}">> >>
  /\ arg_index = 2
  /\ Len(slots) = 3

\* C12: while the parse is in its loop the argument index is the number of
\* tags processed and t stands at the first character of the next tag, or at
\* the '|' before it: separator and modifiers were skipped without advancing
\* the index, so the k-th tag reads the k-th argument.
C12_Lockstep ==
  /\ parse_pc = "loop" =>
       /\ arg_index <= Len(tags)
       /\ \/ t = StartOf(arg_index + 1)
          \/ /\ t = StartOf(arg_index + 1) - 1
             /\ SepOf = arg_index + 1 /\ format[t] = "|" /\ is_required
       /\ (t <= Len(format) /\ format[t] # "|") =>
            /\ format[t] = tags[arg_index + 1][1]
            /\ CurrentArg = (IF arg_index < Len(info) THEN info[arg_index + 1]
                             ELSE EmptyLocal)
  /\ ParseDone => stop_tag = arg_index /\ arg_index <= Len(tags)
  /\ ParseSucceeded =>
       arg_index = (IF FirstAbsent <= Len(tags) THEN FirstAbsent - 1 ELSE Len(tags))

\* the parse stands at the second tag, after a first tag with two modifiers
\* and the separator
C12_Witness ==
  /\ parse_pc = "loop"
  /\ Len(tags) = 2 /\ tags[1] = <<"B", "~", "?">> /\ SepOf = 2
  /\ arg_index = 1
  /\ t = 5 /\ format[t] = tags[2][1]

\* the Globals given to free_later for object o
RetainingGlobals(o) ==
  {g \in 1..Len(globals) : globals[g].object = o /\ globals[g].wrapper # 0}

MaxMsgLen == 2
MaxErrors == 2
MaxCalls == 2

\* the terminator of a C string, read as a character
NUL == ""

\* the characters native messages are made of: an uppercase letter, a
\* lowercase letter, a character without case
MessageChars == {"A", "b", "1"}

Messages == UNION {[1..n -> MessageChars] : n \in 0..MaxMsgLen}

g_unichar_isupper(c) == c \in {"A", "B"}

g_unichar_tolower(c) ==
  CASE c = "A" -> "a"
    [] c = "B" -> "b"
    [] OTHER -> c

g_unichar_toupper(c) ==
  CASE c = "a" -> "A"
    [] c = "b" -> "B"
    [] OTHER -> c

\* the character at the start of m; the terminator when m is empty
g_utf8_get_char(m) == IF m = <<>> THEN NUL ELSE m[1]

g_utf8_strlen(m) == Len(m)

\* true when stepping one character forward from the start of m stays inside
\* the string (the function itself does not check)
OffsetInBounds(m) == Len(m) >= 1

\* g_utf8_offset_to_pointer (m, 1) for a step that stays inside the string
g_utf8_offset_to_pointer(m) == SubSeq(m, 2, Len(m))

\* what a read that starts behind the terminator of an allocation may find
\* before the next zero byte
Garbage == {<<>>, <<"1">>}

\* the C string a buffer holds: the characters before the first terminator
RECURSIVE CString(_)
CString(buf) ==
  IF buf = <<>> \/ buf[1] = NUL THEN <<>>
  ELSE <<buf[1]>> \o CString(Tail(buf))

probably_starts_with_acronym(m) ==
  /\ g_unichar_isupper(g_utf8_get_char(m))
  /\ g_utf8_strlen(m) >= 2
  /\ g_unichar_isupper(g_utf8_get_char(g_utf8_offset_to_pointer(m)))

Returns(value) == [fault |-> FALSE, null |-> FALSE, value |-> value]
ReturnsNull == [fault |-> FALSE, null |-> TRUE, value |-> <<>>]
Faults == [fault |-> TRUE, null |-> FALSE, value |-> <<>>]

\* mutant: the acronym test looks at the first character only
MessageOfFirstUpperVerbatim(m) ==
  IF g_unichar_isupper(g_utf8_get_char(m)) THEN {Returns(m)}
  ELSE {Returns(<<g_unichar_tolower(g_utf8_get_char(m))>>
                  \o g_utf8_offset_to_pointer(m))}

\* the message _gum_v8_error_new_take_error builds from e->message: the set
\* of outcomes.  For the empty message, g_utf8_offset_to_pointer steps over
\* the terminator and g_string_append reads from behind the allocation.
MessageOf(m) ==
  IF probably_starts_with_acronym(m) THEN {Returns(m)}
  ELSE IF OffsetInBounds(m)
       THEN {Returns(CString(<<g_unichar_tolower(g_utf8_get_char(m))>>
                               \o g_utf8_offset_to_pointer(m)))}
       ELSE {Faults} \cup
            {Returns(CString(<<g_unichar_tolower(g_utf8_get_char(m))>> \o g)) :
               g \in Garbage}

GError(m) == [message |-> m, freed |-> 0]

g_error_free(errs, e) == [errs EXCEPT ![e].freed = @ + 1]

\* native code fails and sets the caller's error (g_set_error)
NativeFails(m) ==
  /\ error_pc = "run"
  /\ error = 0
  /\ Len(gerrors) < MaxErrors
  /\ gerrors' = Append(gerrors, GError(m))
  /\ error' = Len(gerrors) + 1
  /\ UNCHANGED <<thrown, error_calls, error_pc>>
  /\ UNCHANGED <<parseVars, resVars, cpuVars, convVars, mspaceVars>>

MaybeThrowCall(e, threw, value) ==
  [e |-> e, threw |-> threw, value |-> value,
   thrown_before |-> Len(thrown), thrown_after |-> Len(thrown'),
   error_after |-> error']

\* mutant: the error is read through the caller's pointer, which is left set
TakeErrorKeepsPointer(outcome) ==
  LET e == error
  IN /\ error' = error
     /\ IF e # 0
        THEN IF outcome.fault
             THEN /\ error_pc' = "fault"
                  /\ UNCHANGED gerrors
             ELSE /\ gerrors' = g_error_free(gerrors, e)
                  /\ UNCHANGED error_pc
        ELSE UNCHANGED <<gerrors, error_pc>>

\* _gum_v8_error_new_take_error: g_steal_pointer empties the caller's
\* pointer; a present error is turned into an Error value and freed
_gum_v8_error_new_take_error(outcome) ==
  LET e == error
  IN /\ error' = 0
     /\ IF e # 0
        THEN IF outcome.fault
             THEN /\ error_pc' = "fault"
                  /\ UNCHANGED gerrors
             ELSE /\ gerrors' = g_error_free(gerrors, e)
                  /\ UNCHANGED error_pc
        ELSE UNCHANGED <<gerrors, error_pc>>

\* the outcomes of building the value: Null for no error
TakeErrorOutcomes ==
  IF error = 0 THEN {ReturnsNull} ELSE MessageOf(gerrors[error].message)

_gum_v8_maybe_throw ==
  /\ error_pc = "run"
  /\ Len(error_calls) < MaxCalls
  /\ \E outcome \in TakeErrorOutcomes :
       /\ _gum_v8_error_new_take_error(outcome)
       /\ IF outcome.fault
          THEN UNCHANGED <<thrown, error_calls>>
          ELSE IF outcome.null
               THEN /\ UNCHANGED thrown
                    /\ error_calls' =
                         Append(error_calls, MaybeThrowCall(error, FALSE, <<>>))
               ELSE /\ thrown' = Append(thrown, outcome.value)
                    /\ error_calls' =
                         Append(error_calls,
                                MaybeThrowCall(error, TRUE, outcome.value))
  /\ UNCHANGED <<parseVars, resVars, cpuVars, convVars, mspaceVars>>

\* mutant: the first character is appended as it is
GetMessageVerbatim(m) ==
  (IF Len(m) >= 1 THEN <<g_utf8_get_char(m)>> ELSE <<>>)
    \o (IF Len(m) >= 2 THEN g_utf8_offset_to_pointer(m) ELSE <<>>)

\* the string _gum_v8_error_get_message returns for the message m
GetMessage(m) ==
  (IF Len(m) >= 1 THEN <<g_unichar_toupper(g_utf8_get_char(m))>> ELSE <<>>)
    \o (IF Len(m) >= 2 THEN g_utf8_offset_to_pointer(m) ELSE <<>>)

\* an Error object of script code with the given message property
ErrorValue(m) == JSValue("error", 0, 0, m, NoProps, <<>>)

_gum_v8_error_get_message(err) == Produced(GetMessage(err.s))

InitError ==
  /\ InitParseIdle /\ InitRegistryIdle /\ InitCpuIdle /\ InitErrorIdle
  /\ InitConvertIdle /\ InitMspaceIdle

NextError ==
  \/ \E m \in Messages : NativeFails(m)
  \/ _gum_v8_maybe_throw

SpecError == InitError /\ [][NextError]_vars

\* the calls of _gum_v8_maybe_throw made with an error present
CallsWithError == {k \in 1..Len(error_calls) : error_calls[k].e # 0}

\* C14: a call with no error raises nothing and returns FALSE; a call with an
\* error raises one exception built from it, returns TRUE, has freed the error
\* once and leaves the caller's pointer NULL, so that calling again with the
\* same pointer raises nothing.  No error is ever freed twice.
C14_MaybeThrowConsumesOnce ==
  /\ \A k \in 1..Len(error_calls) :
       LET call == error_calls[k]
       IN /\ call.error_after = 0
          /\ IF call.e = 0
             THEN ~ call.threw /\ call.thrown_after = call.thrown_before
             ELSE /\ call.threw
                  /\ call.thrown_after = call.thrown_before + 1
                  /\ thrown[call.thrown_after] = call.value
                  /\ Returns(call.value) \in MessageOf(gerrors[call.e].message)
                  /\ gerrors[call.e].freed = 1
  /\ \A k \in 2..Len(error_calls) :
       error_calls[k].e # 0 => error_calls[k].e # error_calls[k - 1].e
  /\ \A e \in 1..Len(gerrors) : gerrors[e].freed <= 1
  /\ error # 0 => gerrors[error].freed = 0
  /\ Len(thrown) = Cardinality(CallsWithError)

\* an error was raised and consumed, and the call made next with the same
\* pointer raised nothing
C14_Witness ==
  /\ Len(error_calls) >= 2
  /\ error_calls[1].e # 0 /\ error_calls[1].threw
  /\ error_calls[2].e = 0 /\ ~ error_calls[2].threw
  /\ Len(thrown) = 1
  /\ gerrors[error_calls[1].e].freed = 1

\* the message the casing rule gives for the native message m
CasedMessage(m) ==
  IF Len(m) >= 2 /\ g_unichar_isupper(m[1]) /\ g_unichar_isupper(m[2]) THEN m
  ELSE IF m = <<>> THEN <<>>
       ELSE <<g_unichar_tolower(m[1])>> \o SubSeq(m, 2, Len(m))

\* C15: every native message gets an exception whose message is the native
\* message unchanged when its first two characters are uppercase, and the
\* native message with only its first character lower-cased in every other
\* case.
C15_MessageCasing ==
  /\ error_pc = "run"
  /\ \A k \in CallsWithError :
       error_calls[k].value = CasedMessage(gerrors[error_calls[k].e].message)

\* the casing rule on the messages of one character and more
C15_NonEmptyMessageCasing ==
  \A k \in CallsWithError :
    gerrors[error_calls[k].e].message # <<>> =>
      error_calls[k].value = CasedMessage(gerrors[error_calls[k].e].message)

\* the native error had the empty message and the read behind its terminator
\* faulted: no exception was made
C15_Witness ==
  /\ error_pc = "fault"
  /\ \E e \in 1..Len(gerrors) : gerrors[e].message = <<>> /\ gerrors[e].freed = 0
  /\ thrown = <<>>

(***************************************************************************)
(* Value conversions, one call at a time                                   *)
(***************************************************************************)

MaxArrayLen == 2
MaxTextLen == 4

Words == 0..G_MAXUINT64
SignedWords == G_MININT64..G_MAXINT64

\* BigInt::NewFromUnsigned (GPOINTER_TO_SIZE (address)) in internal field 0
_gum_v8_native_pointer_new(address) == NativePointerValue(ToUnsignedWord(address))
\* BigInt::New (value) in internal field 0
_gum_v8_int64_new(v) == Int64Value(ToSignedWord(v))
\* BigInt::NewFromUnsigned (value) in internal field 0
_gum_v8_uint64_new(u) == UInt64Value(ToUnsignedWord(u))

\* the numbers script code passes: some doubles are outside every native width
NumberRange == (G_MININT64 - 2)..(G_MAXUINT64 + 2)

TextChars == {"0", "1", "6", "x", "g"}
PlainTexts(len) == UNION {[1..n -> TextChars] : n \in 0..len}
\* what may stand before the digits: a sign, a space
LeadChars == {"-", "+", " "}
Texts ==
  PlainTexts(MaxTextLen)
    \cup {<<c>> \o s : c \in LeadChars, s \in PlainTexts(MaxTextLen - 1)}

ArrayElements ==
  {Number(0), Number(1), Number(-1), Number(Pow2(ByteBits)),
   Number(Pow2(ByteBits) + 1), Fraction(1), String(<<"1">>), String(<<"x">>),
   Boolean(TRUE), Undefined, BigInt(1), ThrowingGetter}

Arrays ==
  {Array(e) : e \in UNION {[1..n -> ArrayElements] : n \in 0..MaxArrayLen}}
    \cup {SparseArray(<<>>, GUM_MAX_SEND_ARRAY_LENGTH),
          SparseArray(<<BigInt(1)>>, GUM_MAX_SEND_ARRAY_LENGTH),
          SparseArray(<<>>, GUM_MAX_SEND_ARRAY_LENGTH + 1),
          SparseArray(<<Number(1)>>, GUM_MAX_SEND_ARRAY_LENGTH + 1)}

\* protection specifiers: the three letters, the dash and another character
ProtChars == {"r", "w", "x", "-", "q"}
ProtTexts == UNION {[1..n -> ProtChars] : n \in 0..MaxTextLen}
\* every combination of GUM_PAGE_READ, GUM_PAGE_WRITE and GUM_PAGE_EXECUTE
GumPageProtection == 0..7

\* an object with a handle property
WithHandle(h) == Object(handle_key :> h)
\* what the handle property may hold
Handles ==
  {NativePointerValue(3), WithHandle(NativePointerValue(3)), Number(3),
   Undefined, ThrowingGetter}

ScriptValues ==
  {Number(n) : n \in NumberRange} \cup {Fraction(n) : n \in NumberRange}
    \cup {BigInt(n) : n \in NumberRange}
    \cup {String(s) : s \in Texts}
    \cup Arrays
    \cup {ArrayBuffer(<<1, 2>>), ArrayBufferView(<<3>>), Undefined, Null,
          Boolean(TRUE), Function(1), Object(NoProps)}
    \cup {ErrorValue(m) : m \in Messages}
    \cup {WithHandle(h) : h \in Handles}
    \cup {String(s) : s \in ProtTexts}

Functions ==
  {"int_get", "uint_get", "int64_get", "uint64_get", "size_get", "ssize_get",
   "int64_parse", "uint64_parse", "native_pointer_get", "native_pointer_parse",
   "bytes_try_get", "bytes_get", "bytes_parse", "error_get_message",
   "page_protection_get"}

\* _gum_v8_error_get_message is only called with an Error object
Applicable(fn, v) == fn = "error_get_message" => v.k = "error"

Apply(fn, v) ==
  CASE fn = "int_get" -> _gum_v8_int_get(v)
    [] fn = "uint_get" -> _gum_v8_uint_get(v)
    [] fn = "int64_get" -> _gum_v8_int64_get(v)
    [] fn = "uint64_get" -> _gum_v8_uint64_get(v)
    [] fn = "size_get" -> _gum_v8_size_get(v)
    [] fn = "ssize_get" -> _gum_v8_ssize_get(v)
    [] fn = "int64_parse" -> _gum_v8_int64_parse(v)
    [] fn = "uint64_parse" -> _gum_v8_uint64_parse(v)
    [] fn = "native_pointer_get" -> _gum_v8_native_pointer_get(v)
    [] fn = "native_pointer_parse" -> _gum_v8_native_pointer_parse(v)
    [] fn = "bytes_try_get" -> _gum_v8_bytes_try_get(v)
    [] fn = "bytes_get" -> _gum_v8_bytes_get(v)
    [] fn = "bytes_parse" -> _gum_v8_bytes_parse(v)
    [] fn = "error_get_message" -> _gum_v8_error_get_message(v)
    [] fn = "page_protection_get" -> _gum_v8_page_protection_get(v)

IsIndeterminate(r) == "ub" \in DOMAIN r /\ r.ub

\* native code calls one conversion on the value; a cast the C standard
\* leaves undefined may give any word
Convert(fn) ==
  /\ conv.fn = "none"
  /\ Applicable(fn, input)
  /\ IF IsIndeterminate(Apply(fn, input))
     THEN \E any \in Words :
            conv' = [fn |-> fn, r |-> [Apply(fn, input) EXCEPT !.n = any]]
     ELSE conv' = [fn |-> fn, r |-> Apply(fn, input)]
  /\ UNCHANGED <<input, origin>>
  /\ UNCHANGED <<parseVars, resVars, cpuVars, errVars, mspaceVars>>

\* native code makes a wrapper object from a word of its own
NativePointerNew(p) ==
  /\ conv.fn = "none" /\ origin.fn = "script" /\ input = Undefined
  /\ input' = _gum_v8_native_pointer_new(p)
  /\ origin' = [fn |-> "native_pointer_new", n |-> p]
  /\ UNCHANGED conv
  /\ UNCHANGED <<parseVars, resVars, cpuVars, errVars, mspaceVars>>

Int64New(v) ==
  /\ conv.fn = "none" /\ origin.fn = "script" /\ input = Undefined
  /\ input' = _gum_v8_int64_new(v)
  /\ origin' = [fn |-> "int64_new", n |-> v]
  /\ UNCHANGED conv
  /\ UNCHANGED <<parseVars, resVars, cpuVars, errVars, mspaceVars>>

Uint64New(u) ==
  /\ conv.fn = "none" /\ origin.fn = "script" /\ input = Undefined
  /\ input' = _gum_v8_uint64_new(u)
  /\ origin' = [fn |-> "uint64_new", n |-> u]
  /\ UNCHANGED conv
  /\ UNCHANGED <<parseVars, resVars, cpuVars, errVars, mspaceVars>>

\* native code makes the specifier string of a protection
PageProtectionNew(prot) ==
  /\ conv.fn = "none" /\ origin.fn = "script" /\ input = Undefined
  /\ input' = _gum_v8_page_protection_new(prot)
  /\ origin' = [fn |-> "page_protection_new", n |-> prot]
  /\ UNCHANGED conv
  /\ UNCHANGED <<parseVars, resVars, cpuVars, errVars, mspaceVars>>

InitConvert ==
  /\ InitParseIdle /\ InitRegistryIdle /\ InitCpuIdle /\ InitErrorIdle
  /\ InitMspaceIdle
  /\ input \in ScriptValues
  /\ origin = [fn |-> "script", n |-> 0]
  /\ conv = [fn |-> "none", r |-> Failed("")]

NextConvert ==
  \/ \E fn \in Functions : Convert(fn)
  \/ \E p \in Words : NativePointerNew(p)
  \/ \E v \in SignedWords : Int64New(v)
  \/ \E u \in Words : Uint64New(u)
  \/ \E prot \in GumPageProtection : PageProtectionNew(prot)

SpecConvert == InitConvert /\ [][NextConvert]_vars

\* the range of a byte
InByte(n) == n >= 0 /\ n < Pow2(ByteBits)

\* an element whose coercion to a number throws
ElementThrows(el) == IsBigInt(el) \/ el = ThrowingGetter

BytesOfArrayCalled == conv.fn = "bytes_parse" /\ IsArray(input)

BytesAtLimit ==
  /\ BytesOfArrayCalled
  /\ ArrayLength(input) = GUM_MAX_SEND_ARRAY_LENGTH
  /\ conv.r.ok
  /\ Len(conv.r.c) = GUM_MAX_SEND_ARRAY_LENGTH

\* C18: the wrapper made from an address reads back as that address, through
\* _gum_v8_native_pointer_get and through _gum_v8_native_pointer_parse, for
\* every address from 0 to the largest; the Int64 wrapper of every signed
\* word and the UInt64 wrapper of every unsigned word read back as the word.
C18_WrapperRoundTrip ==
  /\ (origin.fn = "native_pointer_new"
      /\ conv.fn \in {"native_pointer_get", "native_pointer_parse"}) =>
       conv.r = Converted(origin.n)
  /\ (origin.fn = "int64_new" /\ conv.fn \in {"int64_get", "int64_parse"}) =>
       conv.r = Converted(origin.n)
  /\ (origin.fn = "uint64_new" /\ conv.fn \in {"uint64_get", "uint64_parse"}) =>
       conv.r = Converted(origin.n)

\* the largest address went through the wrapper and back
C18_Witness ==
  /\ origin = [fn |-> "native_pointer_new", n |-> G_MAXUINT64]
  /\ conv.fn = "native_pointer_parse"
  /\ conv.r.ok /\ conv.r.n = G_MAXUINT64

\* C19: a hexadecimal string with the "0x" prefix and the decimal string of
\* the same address parse to that address, and a negative whole number n that
\* fits a signed word parses to the two's complement of n at the width of a
\* pointer, so that -1 gives the address with every bit set.
C19_FuzzyPointerParse ==
  conv.fn = "native_pointer_parse" =>
    /\ input = String(<<"0", "x", "1", "0">>) => conv.r = Converted(16)
    /\ input = String(<<"1", "6">>) => conv.r = Converted(16)
    /\ (IsNumber(input) /\ input.d = 0 /\ input.n < 0 /\ input.n >= G_MININT64) =>
         conv.r = Converted(Pow2(WordBits) + input.n)
    /\ input = Number(-1) => conv.r.n = G_MAXUINT64

\* -1 was parsed to the address with every bit set
C19_Witness ==
  /\ conv.fn = "native_pointer_parse"
  /\ input = Number(-1)
  /\ conv.r.ok /\ conv.r.n = Pow2(WordBits) - 1

HexStringParsed ==
  /\ conv.fn = "native_pointer_parse"
  /\ input = String(<<"0", "x", "1", "0">>)
  /\ conv.r.ok /\ conv.r.n = 16

IntGetCalled == conv.fn \in {"int_get", "uint_get"}

LowestOf(fn) == IF fn = "int_get" THEN G_MININT ELSE 0
HighestOf(fn) == IF fn = "int_get" THEN G_MAXINT ELSE G_MAXUINT
ExpectedIntegerError(fn) ==
  IF fn = "int_get" THEN "expected an integer" ELSE "expected an unsigned integer"

\* C20 as stated: a number is accepted only when it is an integer within the
\* range, and every fractional value fails.
C20_FractionalFails ==
  (IntGetCalled /\ IsNumber(input) /\ input.d = 1) => ~ conv.r.ok

\* C20: a number is accepted exactly when it lies within the range of the
\* type, fractional part included, and is stored truncated toward zero; a
\* BigInt is accepted exactly when it lies within the range; every other
\* value fails with the expected-integer error of the function and the output
\* is not written.
C20_IntGetRange ==
  IntGetCalled =>
    /\ conv.r.ok <=>
         \/ /\ IsNumber(input)
            /\ input.n >= LowestOf(conv.fn)
            /\ (input.n < HighestOf(conv.fn)
                \/ (input.n = HighestOf(conv.fn) /\ input.d = 0))
         \/ /\ IsBigInt(input)
            /\ input.n >= LowestOf(conv.fn) /\ input.n <= HighestOf(conv.fn)
    /\ conv.r.ok =>
         /\ conv.r.w /\ ~ conv.r.ub
         /\ conv.r.n = IF IsNumber(input) /\ input.d = 1 /\ input.n < 0
                       THEN input.n + 1 ELSE input.n
    /\ ~ conv.r.ok =>
         ~ conv.r.w /\ conv.r.exc = ExpectedIntegerError(conv.fn)

\* 1.5 was accepted and stored as 1
C20_Witness ==
  /\ conv.fn = "int_get"
  /\ input = Fraction(1)
  /\ conv.r.ok /\ conv.r.n = 1

\* C16: the string returned is the message of the scripting error with its
\* first character upper-cased and the other characters unchanged; the empty
\* message gives the empty string.
C16_GetMessageUppercasesFirst ==
  conv.fn = "error_get_message" =>
    /\ conv.r.ok
    /\ Len(conv.r.c) = Len(input.s)
    /\ \A i \in 1..Len(input.s) :
         conv.r.c[i] = IF i = 1 THEN g_unichar_toupper(input.s[1]) ELSE input.s[i]

\* the message "bA" was extracted as "BA"
C16_Witness ==
  /\ conv.fn = "error_get_message"
  /\ input = ErrorValue(<<"b", "A">>)
  /\ conv.r.c = <<"B", "A">>

EmptyMessageExtracted ==
  /\ conv.fn = "error_get_message"
  /\ input = ErrorValue(<<>>)
  /\ conv.r.c = <<>>

Int64TextParsed == conv.fn \in {"int64_parse", "uint64_parse"} /\ IsString(input)

AllDigitsOf(s, base) == \A i \in 1..Len(s) : IsDigitOf(s[i], base)

\* a well-formed literal: "0x" and hexadecimal digits, or decimal digits
WellFormedLiteral(s) ==
  \/ Len(s) >= 3 /\ g_str_has_prefix_0x(s) /\ AllDigitsOf(SubSeq(s, 3, Len(s)), 16)
  \/ Len(s) >= 1 /\ AllDigitsOf(s, 10)

\* the text the digits are looked for in, and their base
NumberText(s) == IF g_str_has_prefix_0x(s) THEN SubSeq(s, 3, Len(s)) ELSE s
NumberBase(s) == IF g_str_has_prefix_0x(s) THEN 16 ELSE 10

\* where the digits are expected: behind leading space and one sign
DigitsFrom(b) ==
  IF SignAt(b, SkipSpaces(b, 1)) THEN SkipSpaces(b, 1) + 1 ELSE SkipSpaces(b, 1)

StartsWithDigit(s) ==
  /\ DigitsFrom(NumberText(s)) <= Len(NumberText(s))
  /\ IsDigitOf(NumberText(s)[DigitsFrom(NumberText(s))], NumberBase(s))

\* C21 as stated: a text is accepted only when the whole of it is a
\* well-formed hexadecimal or decimal literal.
C21_MalformedTextFails ==
  Int64TextParsed => (conv.r.ok <=> WellFormedLiteral(input.s))

\* C21: a text fails, with "invalid hexadecimal string" in both bases,
\* exactly when no digit of the base stands at its start (behind the "0x"
\* prefix, leading space and one sign); what follows the digits is ignored.
C21_TextFailsWithoutLeadingDigit ==
  Int64TextParsed =>
    /\ conv.r.ok <=> StartsWithDigit(input.s)
    /\ ~ conv.r.ok => conv.r.exc = "invalid hexadecimal string" /\ conv.r.n = 0
    /\ input.s = <<"1", "g">> => conv.r = Converted(1)
    /\ input.s = <<"0", "x", "1", "g">> => conv.r = Converted(1)
    /\ input.s \in {<<>>, <<"g">>, <<"0", "x">>, <<"0", "x", "g">>} => ~ conv.r.ok

\* digits followed by another character were accepted
C21_Witness ==
  /\ conv.fn = "int64_parse"
  /\ input = String(<<"0", "x", "1", "g">>)
  /\ conv.r.ok /\ conv.r.n = 1

EmptyTextRefused ==
  /\ conv.fn = "uint64_parse"
  /\ input = String(<<>>)
  /\ ~ conv.r.ok

TextParsed ==
  /\ conv.fn \in {"int64_parse", "uint64_parse", "native_pointer_parse"}
  /\ IsString(input)

\* C22 as stated: a text that starts with a sign or with white space is
\* refused.
C22_SignOrSpaceRejected ==
  (TextParsed /\ Len(input.s) >= 1 /\ input.s[1] \in LeadChars) => ~ conv.r.ok

\* the number a text of decimal digits denotes
RECURSIVE DecimalValue(_)
DecimalValue(s) ==
  IF s = <<>> THEN 0
  ELSE 10 * DecimalValue(SubSeq(s, 1, Len(s) - 1)) + DigitValue(s[Len(s)])

\* C22: "0x" at the very start selects base 16, every other text is read in
\* base 10; in both, leading white space and one sign are accepted.  A
\* '-' negates the value: _gum_v8_int64_parse gives the negative number, the
\* unsigned parsers give its two's complement.
C22_SignAndSpaceAccepted ==
  (/\ TextParsed /\ Len(input.s) >= 2 /\ input.s[1] \in LeadChars
   /\ AllDigitsOf(Tail(input.s), 10)
   /\ DecimalValue(Tail(input.s)) <= G_MAXINT64) =>
    /\ conv.r.ok
    /\ conv.r.n =
         IF input.s[1] # "-" THEN DecimalValue(Tail(input.s))
         ELSE IF conv.fn = "int64_parse" THEN - DecimalValue(Tail(input.s))
         ELSE ToUnsignedWord(- DecimalValue(Tail(input.s)))

\* "-1" was parsed as a pointer: the address with every bit set
C22_Witness ==
  /\ conv.fn = "native_pointer_parse"
  /\ input = String(<<"-", "1">>)
  /\ conv.r.ok /\ conv.r.n = G_MAXUINT64


----------------------------------------------------------------------------
(* C23: arbitrary-precision integers that do not fit the target width.      *)
BigIntFunctions ==
  {"int64_get", "uint64_get", "size_get", "ssize_get", "native_pointer_parse"}
SignedFunctions == {"int64_get", "ssize_get"}

BigIntConverted == conv.fn \in BigIntFunctions /\ IsBigInt(input)

\* the BigInt has the same value after conversion to the width of fn
LosslessFor(fn, n) ==
  IF fn \in SignedFunctions
  THEN n >= G_MININT64 /\ n <= G_MAXINT64
  ELSE n >= 0 /\ n <= G_MAXUINT64

LossyBigIntConverted == BigIntConverted /\ ~ LosslessFor(conv.fn, input.n)

\* C23 as stated: every conversion of a BigInt that does not convert
\* losslessly fails with the expected-integer or expected-pointer error, the
\* pointer parser included.
C23_LossyBigIntFails ==
  LossyBigIntConverted =>
    /\ ~ conv.r.ok
    /\ conv.r.exc \in {"expected an integer", "expected an unsigned integer",
                       "expected a pointer"}

\* C23: the four integer conversions fail for a BigInt that does not convert
\* losslessly and succeed with the value itself for one that does; the
\* pointer parser accepts every BigInt and returns its low 64 bits.
C23_LossyBigIntFailsExceptPointerParse ==
  BigIntConverted =>
    IF conv.fn = "native_pointer_parse"
    THEN conv.r.ok /\ conv.r.n = ToUnsignedWord(input.n)
    ELSE /\ conv.r.ok <=> LosslessFor(conv.fn, input.n)
         /\ conv.r.ok => conv.r.n = input.n
         /\ ~ conv.r.ok =>
              conv.r.exc = IF conv.fn \in {"int64_get", "ssize_get"}
                           THEN "expected an integer"
                           ELSE "expected an unsigned integer"

\* 2^64 + 1 was parsed as the pointer 1
C23_Witness ==
  /\ conv.fn = "native_pointer_parse"
  /\ input = BigInt(G_MAXUINT64 + 2)
  /\ conv.r.ok /\ conv.r.n = 1

\* 2^64 was refused by the unsigned getter
LossyBigIntRefused ==
  /\ conv.fn = "uint64_get"
  /\ input = BigInt(G_MAXUINT64 + 1)
  /\ ~ conv.r.ok


----------------------------------------------------------------------------
(* C24: which values _gum_v8_native_pointer_get accepts.                    *)
PointerGetCalled == conv.fn = "native_pointer_get"

HasHandle(v) == ToObjectSucceeds(v) /\ handle_key \in DOMAIN v.p
HandleOf(v) == GetProperty(v, handle_key)

\* a wrapper, or an object whose handle is a wrapper
WrapperOrHandle(v) ==
  \/ HasInstance("NativePointer", v)
  \/ HasHandle(v) /\ HasInstance("NativePointer", HandleOf(v))

HandleGetterThrows(v) ==
  ~ HasInstance("NativePointer", v) /\ HasHandle(v) /\ HandleOf(v) = ThrowingGetter

PointerGetRefused ==
  ~ conv.r.ok /\ ~ conv.r.w /\ conv.r.exc = "expected a pointer"

\* C24 as stated: success exactly for a wrapper or an object whose handle is
\* a wrapper; for every other value 'expected a pointer' is raised, failure
\* is returned and the output is not written.
C24_PointerGetUnwrapsOnce ==
  PointerGetCalled =>
    /\ conv.r.ok <=> WrapperOrHandle(input)
    /\ conv.r.ok =>
         conv.r.n = IF HasInstance("NativePointer", input)
                    THEN input.n ELSE HandleOf(input).n
    /\ ~ conv.r.ok => PointerGetRefused

\* C24: the same for every value whose handle property can be read; when
\* reading the handle property throws, the call ends the process instead of
\* raising 'expected a pointer'.
C24_PointerGetUnwrapsOnceIfReadable ==
  PointerGetCalled =>
    IF HandleGetterThrows(input)
    THEN conv.r = Aborted("v8::ToLocalChecked: Empty MaybeLocal")
    ELSE /\ conv.r.ok <=> WrapperOrHandle(input)
         /\ conv.r.ok =>
              conv.r.n = IF HasInstance("NativePointer", input)
                         THEN input.n ELSE HandleOf(input).n
         /\ ~ conv.r.ok => PointerGetRefused

\* a handle whose own handle is a pointer was refused
C24_Witness ==
  /\ PointerGetCalled
  /\ input = WithHandle(WithHandle(NativePointerValue(3)))
  /\ PointerGetRefused

\* an object whose handle is a pointer was unwrapped
HandleUnwrapped ==
  /\ PointerGetCalled
  /\ input = WithHandle(NativePointerValue(3))
  /\ conv.r.ok /\ conv.r.n = 3

\* reading the handle threw and the call did not return
HandleGetterAborted ==
  /\ PointerGetCalled
  /\ HandleGetterThrows(input)
  /\ ~ PointerGetRefused


----------------------------------------------------------------------------
(* C25: the context of a thrown native exception, checked under SpecCpu.    *)
ThrownContexts == {o \in 1..Len(objects) : objects[o].thrown}

\* no other object reads the copy the object points to
PrivateCopy(o) ==
  /\ objects[o].field0.space = "heap"
  /\ \A other \in 1..Len(objects) :
       other # o => objects[other].field0 # objects[o].field0

\* C25: the context object of an exception _gum_v8_throw_native has thrown is
\* immutable and points to a copy of its own, never to the context of the
\* native exception details: what script code reads through it, for as long
\* as it can reach the object, are the registers as they were at the throw.
C25_ThrownContextImmutableCopy ==
  \A o \in ThrownContexts :
    /\ ~ objects[o].is_mutable
    /\ PrivateCopy(o)
    /\ objects[o].field0 # Pointer("native", objects[o].origin)
    /\ ObjectAlive(o) => ReadRegisters(o) = {objects[o].snap}

\* an exception was thrown, then the engine changed the registers of the
\* exception details and ended the event: script code still reads the
\* registers of the throw
C25_Witness ==
  \E o \in ThrownContexts :
    /\ ObjectAlive(o)
    /\ ~ native_ctx[objects[o].origin].live
    /\ native_ctx[objects[o].origin].regs # objects[o].snap
    /\ ReadRegisters(o) = {objects[o].snap}


----------------------------------------------------------------------------
(* C26: the accounting of external memory, checked under SpecRegistry.      *)

\* the sizes of the records among the first n that are in a tracking set, summed
RECURSIVE TrackedSize(_)
TrackedSize(n) ==
  IF n = 0 THEN 0
  ELSE TrackedSize(n - 1)
         + (IF n \in native_resources \cup kernel_resources
            THEN resources[n].size ELSE 0)

AllFinalized == \A id \in 1..Len(resources) : resources[id].wn = 1
AllReleased == \A id \in 1..Len(resources) : resources[id].freed = 1

\* a record was released by a call of the exported free function
ReleasedByCall(id) == resources[id].freed = 1 /\ resources[id].wn = 0

ReleasedRecordTracked ==
  \E id \in native_resources \cup kernel_resources :
    ReleasedByCall(id) /\ resources[id].size > 0


----------------------------------------------------------------------------
(* C27: references to match patterns, checked under SpecParse.              *)

\* the tags converted from a MatchPattern object that owns pattern id
PatternOccurrences(id) ==
  {i \in 1..stop_tag : tags[i] = <<"M">> /\ info[i] = MatchPatternValue(id)}

\* the patterns compiled from a string during the call
CompiledPatterns ==
  {id \in (Len(InitialHeap) + 1)..Len(heap) : heap[id].kind = "pattern"}

PatternReferenceReturned ==
  /\ ParseFailed
  /\ PatternOccurrences(1) = {1}
  /\ heap[1].rc = InitialHeap[1].rc /\ heap[1].rel = 1

\* a pattern compiled from a string for the first tag of a parse that failed
\* at the second: destroyed
CompiledPatternDestroyed ==
  /\ ParseFailed
  /\ stop_tag = 1
  /\ tags[1] = <<"M">> /\ IsString(info[1])
  /\ \E id \in CompiledPatterns : heap[id].rc = 0


----------------------------------------------------------------------------
(* C28: undefined and null arguments, checked under SpecParse.              *)

NullableTokens == {<<"s", "?">>, <<"B", "~", "?">>}

\* the argument of tag k is undefined and arguments are supplied after it
UndefinedBeforeSupplied(k) ==
  /\ k <= Len(info) /\ IsUndefined(info[k])
  /\ \E j \in (k + 1)..Len(info) : ~ IsUndefined(info[j])

\* C28: when the parse reaches an optional tag whose argument is undefined,
\* it ends with success although further arguments are supplied: no argument
\* from that one on is converted and no slot of that tag or of a later one is
\* written.  No tag, nullable or not, converts an undefined argument; a
\* nullable tag given null writes a null pointer to its slot and the parse
\* goes on.
C28_UndefinedEndsOptionalPart ==
  ParseDone =>
    /\ \A k \in 1..stop_tag : Present(k)
    /\ (FirstAbsent <= Len(tags) /\ UndefinedBeforeSupplied(FirstAbsent)
          /\ ~ Required(FirstAbsent) /\ Reaches(FirstAbsent)) =>
         /\ parse_result /\ exception = "" /\ throws = 0
         /\ stop_tag = FirstAbsent - 1 /\ arg_index = FirstAbsent - 1
         /\ Len(slots) = Len(ExpectedSlots(FirstAbsent - 1))
         /\ \A id \in 1..Len(heap) : heap[id].st <= FirstAbsent - 1
    /\ (Len(tags) >= 1 /\ tags[1] \in NullableTokens
          /\ Len(info) >= 1 /\ IsNull(info[1])) =>
         /\ stop_tag >= 1
         /\ slots[1].w /\ ~ slots[1].a /\ slots[1].n = 0
    /\ (Len(tags) >= 1 /\ tags[1] \in NullableTokens
          /\ Len(info) >= 1 /\ IsUndefined(info[1])) =>
         /\ stop_tag = 0 /\ slots = <<>>
         /\ parse_result <=> ~ Required(1)

\* the first of two optional tags got undefined and the second an argument
\* of the wrong type: the parse succeeded and wrote nothing
C28_Witness ==
  /\ ParseSucceeded
  /\ Len(tags) = 2 /\ Len(info) = 2
  /\ ~ Required(1) /\ IsUndefined(info[1])
  /\ ~ IsUndefined(info[2]) /\ ~ WellTyped(tags[2], info[2])
  /\ slots = <<>> /\ exception = ""

\* a nullable tag got null and the parse went on to the next tag
NullAccepted ==
  /\ ParseSucceeded
  /\ Len(tags) = 2 /\ tags[1] \in NullableTokens
  /\ Len(info) = 2 /\ IsNull(info[1])
  /\ stop_tag = 2 /\ slots[1].n = 0 /\ ~ slots[1].a

\* a required nullable tag got undefined: missing argument
UndefinedNotNull ==
  /\ ParseFailed
  /\ Len(tags) >= 1 /\ tags[1] \in NullableTokens /\ Required(1)
  /\ Len(info) >= 1 /\ IsUndefined(info[1])
  /\ exception = "missing argument"


----------------------------------------------------------------------------
(* C29: page protection specifiers, checked under SpecConvert.              *)

CharsOf(str) == {str[i] : i \in 1..Len(str)}

\* the union of the letters of a specifier
LettersOf(str) ==
  (IF "r" \in CharsOf(str) THEN 1 ELSE 0)
    + (IF "w" \in CharsOf(str) THEN 2 ELSE 0)
    + (IF "x" \in CharsOf(str) THEN 4 ELSE 0)

ProtectionParsed == conv.fn = "page_protection_get"
ProtectionMade == origin.fn = "page_protection_new"

\* what case 'm' of the argument parser does with the value
ProtectionTag == ParseCase(<<"m">>, 1, input)

\* C29: _gum_v8_page_protection_new yields three characters, 'r', 'w', 'x'
\* or '-' in the read, write and execute position, and
\* _gum_v8_page_protection_get of that string is the protection it was made
\* from; the parser takes the union of the letters of a string of any length
\* and order, and a string with another character, like a value that is no
\* string, fails, and the 'm' tag then takes and writes no slot.
C29_ProtectionRoundTrip ==
  /\ ProtectionMade =>
       /\ IsString(input) /\ Len(input.s) = 3
       /\ input.s[1] = (IF HasBit(origin.n, 1) THEN "r" ELSE "-")
       /\ input.s[2] = (IF HasBit(origin.n, 2) THEN "w" ELSE "-")
       /\ input.s[3] = (IF HasBit(origin.n, 4) THEN "x" ELSE "-")
  /\ (ProtectionMade /\ ProtectionParsed) =>
       conv.r.ok /\ conv.r.n = origin.n
  /\ ProtectionParsed =>
       /\ conv.r.ok <=> (IsString(input) /\ CharsOf(input.s) \subseteq {"r", "w", "x", "-"})
       /\ conv.r.ok => conv.r.n = LettersOf(input.s)
       /\ ~ conv.r.ok =>
            conv.r.exc =
              IF IsString(input)
              THEN "invalid character in memory protection specifier string"
              ELSE "expected a string specifying memory protection"
       /\ ProtectionTag.ok <=> conv.r.ok
       /\ ProtectionTag.outs =
            IF conv.r.ok THEN <<Slot("GumPageProtection", conv.r.n)>> ELSE <<>>
       /\ ProtectionTag.exc = conv.r.exc

\* the string made for read and execute was parsed back to read and execute
C29_Witness ==
  /\ ProtectionMade /\ ProtectionParsed
  /\ origin.n = 5
  /\ input = String(<<"r", "-", "x">>)
  /\ conv.r.ok /\ conv.r.n = 5

\* letters out of order and repeated
LettersInAnyOrder ==
  /\ ProtectionParsed
  /\ input = String(<<"x", "x", "w", "r">>)
  /\ conv.r.ok /\ conv.r.n = 7

\* a letter followed by another character
BadSpecifierRefused ==
  /\ ProtectionParsed
  /\ input = String(<<"r", "q">>)
  /\ ~ conv.r.ok /\ ProtectionTag.outs = <<>>


(***************************************************************************)
(* The static-buffer allocator                                             *)
(***************************************************************************)

\* blocks returned between two resets of the allocator
MaxBlocks == 3

\* size_t and uintptr_t have 64 bits; the model keeps 30, the most for which
\* the sum of two words is still an integer of the model checker
SizeBits == 30
SIZE_MAX == Pow2(SizeBits) - 1
\* unsigned arithmetic: the result modulo 2^SizeBits
SizeT(n) == n % Pow2(SizeBits)

sizeof_size_t == 8
BUFFER_SIZE == 128 * Pow2(20)

\* x & ~m over the low bits of x
RECURSIVE AndNot(_, _, _)
AndNot(x, m, bits) ==
  IF bits = 0 THEN 0
  ELSE (IF x % 2 = 1 /\ m % 2 = 0 THEN 1 ELSE 0)
         + 2 * AndNot(x \div 2, m \div 2, bits - 1)

\* what an allocation returns: mem, the address of the block (0: NULL);
\* size, the value stored in the header before the block; after, the new
\* static_offset
Allocated(mem, size, end_offset) ==
  [ok |-> TRUE, mem |-> mem, size |-> size, after |-> end_offset]
OutOfMemory(offset) ==
  [ok |-> FALSE, mem |-> 0, size |-> 0, after |-> offset]

\* mspace_malloc with static_buffer at address buffer and static_offset at
\* offset
Malloc(buffer, offset, bytes) ==
  IF SizeT(offset + sizeof_size_t + bytes) > BUFFER_SIZE
  THEN OutOfMemory(offset)
  ELSE Allocated(SizeT(buffer + offset + sizeof_size_t), bytes,
                 SizeT(offset + sizeof_size_t + bytes))

\* start + bytes leaves the address space: the pointer arithmetic is
\* undefined; a build computes the wrapped address or, with pointer overflow
\* checks, traps
MallocOverflows(buffer, offset, bytes) ==
  buffer + offset + sizeof_size_t + bytes > SIZE_MAX

\* the address mspace_memalign rounds start up to
AlignedStart(buffer, offset, alignment) ==
  AndNot(SizeT(buffer + offset + sizeof_size_t + alignment - 1),
         SizeT(alignment - 1), SizeBits)

Memalign(buffer, offset, alignment, bytes) ==
  IF SizeT(SizeT(AlignedStart(buffer, offset, alignment) + bytes + sizeof_size_t)
           - buffer) > BUFFER_SIZE
  THEN OutOfMemory(offset)
  ELSE Allocated(AlignedStart(buffer, offset, alignment), bytes,
                 SizeT(SizeT(AlignedStart(buffer, offset, alignment) + bytes
                             + sizeof_size_t) - buffer))

MemalignOverflows(buffer, offset, alignment, bytes) ==
  \/ buffer + offset + sizeof_size_t + alignment - 1 > SIZE_MAX
  \/ AlignedStart(buffer, offset, alignment) + bytes + sizeof_size_t > SIZE_MAX

\* a block handed out: requested is the size the caller asked for, alignment
\* the alignment (1 when none was asked for), before and after the
\* static_offset around the call
Block(r, requested, alignment) ==
  [mem |-> r.mem, size |-> r.size, requested |-> requested,
   alignment |-> alignment, before |-> static_offset, after |-> r.after]

\* no call has trapped
Running == ~ mspace_call.trapped

\* the call returns r
Return(op, r, requested, alignment) ==
  /\ static_offset' = r.after
  /\ returned' = IF r.ok THEN Append(returned, Block(r, requested, alignment))
                 ELSE returned
  /\ mspace_call' = [op |-> op, ret |-> r.mem, before |-> static_offset,
                     after |-> r.after, failed |-> ~ r.ok, trapped |-> FALSE]

\* the header of the block is written outside static_buffer: the store is
\* undefined; it lands in other memory of the process or faults
WildHeader(buffer, r) ==
  /\ r.ok
  /\ \/ r.mem - sizeof_size_t < buffer
     \/ r.mem > buffer + BUFFER_SIZE

\* the call does not return: the pointer overflow is trapped or the store
\* of the header faults
Trap(op) ==
  /\ mspace_call' = [op |-> op, ret |-> 0, before |-> static_offset,
                     after |-> static_offset, failed |-> FALSE, trapped |-> TRUE]
  /\ UNCHANGED <<static_offset, returned>>

create_mspace ==
  /\ Running
  /\ static_offset' = 0
  /\ returned' = <<>>
  /\ mspace_call' = [op |-> "create_mspace", ret |-> 1, before |-> static_offset,
                     after |-> 0, failed |-> FALSE, trapped |-> FALSE]
  /\ UNCHANGED static_buffer
  /\ UNCHANGED <<parseVars, resVars, cpuVars, errVars, convVars>>

destroy_mspace ==
  /\ Running
  /\ static_offset' = 0
  /\ returned' = <<>>
  /\ mspace_call' = [op |-> "destroy_mspace", ret |-> static_offset,
                     before |-> static_offset, after |-> 0, failed |-> FALSE, trapped |-> FALSE]
  /\ UNCHANGED static_buffer
  /\ UNCHANGED <<parseVars, resVars, cpuVars, errVars, convVars>>

mspace_malloc(bytes) ==
  /\ Running /\ Len(returned) < MaxBlocks
  /\ \/ Return("mspace_malloc", Malloc(static_buffer, static_offset, bytes),
               bytes, 1)
     \/ /\ \/ MallocOverflows(static_buffer, static_offset, bytes)
           \/ WildHeader(static_buffer, Malloc(static_buffer, static_offset, bytes))
        /\ Trap("mspace_malloc")
  /\ UNCHANGED static_buffer
  /\ UNCHANGED <<parseVars, resVars, cpuVars, errVars, convVars>>

\* total = n_elements * elem_size wraps; memset fills the block only
mspace_calloc(n_elements, elem_size) ==
  /\ Running /\ Len(returned) < MaxBlocks
  /\ \/ Return("mspace_calloc",
               Malloc(static_buffer, static_offset, SizeT(n_elements * elem_size)),
               n_elements * elem_size, 1)
     \/ /\ \/ MallocOverflows(static_buffer, static_offset,
                              SizeT(n_elements * elem_size))
           \/ WildHeader(static_buffer,
                         Malloc(static_buffer, static_offset,
                                SizeT(n_elements * elem_size)))
        /\ Trap("mspace_calloc")
  /\ UNCHANGED static_buffer
  /\ UNCHANGED <<parseVars, resVars, cpuVars, errVars, convVars>>

\* with or without oldmem the block comes from mspace_malloc; memcpy fills
\* the new block only and the old block stays
mspace_realloc(oldmem, bytes) ==
  /\ Running /\ Len(returned) < MaxBlocks
  /\ \/ Return("mspace_realloc", Malloc(static_buffer, static_offset, bytes),
               bytes, 1)
     \/ /\ \/ MallocOverflows(static_buffer, static_offset, bytes)
           \/ WildHeader(static_buffer, Malloc(static_buffer, static_offset, bytes))
        /\ Trap("mspace_realloc")
  /\ UNCHANGED static_buffer
  /\ UNCHANGED <<parseVars, resVars, cpuVars, errVars, convVars>>

mspace_memalign(alignment, bytes) ==
  /\ Running /\ Len(returned) < MaxBlocks
  /\ \/ Return("mspace_memalign",
               Memalign(static_buffer, static_offset, alignment, bytes),
               bytes, alignment)
     \/ /\ \/ MemalignOverflows(static_buffer, static_offset, alignment, bytes)
           \/ WildHeader(static_buffer,
                         Memalign(static_buffer, static_offset, alignment, bytes))
        /\ Trap("mspace_memalign")
  /\ UNCHANGED static_buffer
  /\ UNCHANGED <<parseVars, resVars, cpuVars, errVars, convVars>>

\* nothing is given back
mspace_free(mem) ==
  /\ Running
  /\ mspace_call' = [op |-> "mspace_free", ret |-> 0, before |-> static_offset,
                     after |-> static_offset, failed |-> FALSE,
                     trapped |-> FALSE]
  /\ mspace_call' # mspace_call
  /\ UNCHANGED <<static_buffer, static_offset, returned>>
  /\ UNCHANGED <<parseVars, resVars, cpuVars, errVars, convVars>>

\* the header before the block: the size stored by the last allocation that
\* returned mem
mspace_usable_size(mem) ==
  IF mem = 0 THEN 0
  ELSE returned[CHOOSE i \in 1..Len(returned) :
                  /\ returned[i].mem = mem
                  /\ \A j \in (i + 1)..Len(returned) : returned[j].mem # mem].size

\* the sizes, element counts and alignments callers ask for: small ones, the
\* whole buffer, and sizes close to SIZE_MAX
MallocSizes ==
  {0, 1, 24, BUFFER_SIZE - sizeof_size_t, SIZE_MAX - 7, SIZE_MAX - 15}
CallocArgs == {<<2, 12>>, <<Pow2(15), Pow2(15)>>}
Alignments == {0, 1, 3, 16}
MemalignSizes == {1, BUFFER_SIZE}
ReallocSizes == {1, 24}
\* the addresses the linker may give the buffer
BufferAddresses == {Pow2(12), Pow2(12) + 8}

ReturnedPointers == {0} \cup {returned[i].mem : i \in 1..Len(returned)}

InitMspace ==
  /\ InitParseIdle /\ InitRegistryIdle /\ InitCpuIdle /\ InitErrorIdle
  /\ InitConvertIdle
  /\ static_buffer \in BufferAddresses
  /\ static_offset = 0
  /\ returned = <<>>
  /\ mspace_call = NoCall

NextMspace ==
  \/ create_mspace
  \/ destroy_mspace
  \/ \E bytes \in MallocSizes : mspace_malloc(bytes)
  \/ \E a \in CallocArgs : mspace_calloc(a[1], a[2])
  \/ \E oldmem \in ReturnedPointers, bytes \in ReallocSizes :
       mspace_realloc(oldmem, bytes)
  \/ \E alignment \in Alignments, bytes \in MemalignSizes :
       mspace_memalign(alignment, bytes)
  \/ \E mem \in ReturnedPointers : mspace_free(mem)

SpecMspace == InitMspace /\ [][NextMspace]_vars


----------------------------------------------------------------------------
(* C30: the contract of the allocator, checked under SpecMspace.            *)

AllocationCalls ==
  {"mspace_malloc", "mspace_calloc", "mspace_realloc", "mspace_memalign"}

\* the bytes of a block, its size header included: from HeaderStart up to,
\* not including, BlockEnd
HeaderStart(b) == b.mem - sizeof_size_t
BlockEnd(b) == b.mem + b.size

InsideBuffer(b) ==
  /\ HeaderStart(b) >= static_buffer
  /\ BlockEnd(b) <= static_buffer + BUFFER_SIZE

Overlap(a, b) == HeaderStart(a) < BlockEnd(b) /\ HeaderStart(b) < BlockEnd(a)

\* an allocation call found no room
AllocationFailed == mspace_call.op \in AllocationCalls /\ mspace_call.failed

\* C30 as stated: since the last reset static_offset never decreases and
\* never exceeds BUFFER_SIZE, every block returned lies inside the buffer
\* with its header and overlaps no block returned earlier,
\* mspace_usable_size of a returned block is the size requested, and a
\* failed allocation returns NULL and leaves static_offset unchanged.
C30_AllocatorContract ==
  /\ static_offset <= BUFFER_SIZE
  /\ mspace_call.op \in AllocationCalls => mspace_call.after >= mspace_call.before
  /\ \A i \in 1..Len(returned) :
       /\ returned[i].after >= returned[i].before
       /\ InsideBuffer(returned[i])
       /\ \A j \in 1..(i - 1) : ~ Overlap(returned[j], returned[i])
       /\ mspace_usable_size(returned[i].mem) = returned[i].requested
  /\ AllocationFailed =>
       mspace_call.ret = 0 /\ mspace_call.after = mspace_call.before

\* a request the arithmetic of the allocator can hold: no more than the
\* buffer, aligned to 1 or more
SaneRequest(b) ==
  /\ b.requested <= BUFFER_SIZE
  /\ b.alignment >= 1 /\ b.alignment <= BUFFER_SIZE

\* C30 for requests within the buffer size: static_offset never exceeds
\* BUFFER_SIZE and a failed allocation leaves it unchanged, whatever was
\* requested; as long as every block returned since the last reset was
\* requested with a size and alignment of at most BUFFER_SIZE, static_offset
\* has not decreased, the blocks lie inside the buffer one after the other
\* without overlap, and the header of each holds the size requested.
C30_ContractWithinBufferSize ==
  /\ static_offset <= BUFFER_SIZE
  /\ AllocationFailed =>
       /\ mspace_call.ret = 0
       /\ mspace_call.after = mspace_call.before
       /\ static_offset = mspace_call.before
  /\ (\A i \in 1..Len(returned) : SaneRequest(returned[i])) =>
       /\ \A i \in 1..Len(returned) :
            /\ returned[i].after >= returned[i].before + sizeof_size_t
            /\ InsideBuffer(returned[i])
            /\ HeaderStart(returned[i]) >= static_buffer + returned[i].before
            /\ BlockEnd(returned[i]) <= static_buffer + returned[i].after
            /\ \A j \in 1..(i - 1) :
                 /\ returned[j].after <= returned[i].before
                 /\ ~ Overlap(returned[j], returned[i])
            /\ mspace_usable_size(returned[i].mem) = returned[i].requested
       /\ Len(returned) > 0 => static_offset = returned[Len(returned)].after

\* two blocks, the second aligned to 16 with padding before its header, and
\* then an allocation that found no room and left static_offset where it was
C30_Witness ==
  /\ Len(returned) = 2
  /\ \A i \in 1..2 : SaneRequest(returned[i])
  /\ returned[2].alignment = 16 /\ returned[2].mem % 16 = 0
  /\ returned[2].mem > static_buffer + returned[2].before + sizeof_size_t
  /\ AllocationFailed
  /\ static_offset = returned[2].after

\* mspace_malloc of SIZE_MAX - 15 bytes succeeded and moved static_offset back
OffsetDecreased ==
  /\ mspace_call.op = "mspace_malloc" /\ mspace_call.ret # 0
  /\ mspace_call.after < mspace_call.before

\* the same address was returned twice
BlockReturnedTwice ==
  \E i, j \in 1..Len(returned) : i < j /\ returned[i].mem = returned[j].mem

\* mspace_calloc returned a block smaller than n_elements * elem_size
CallocBlockTooSmall ==
  /\ mspace_call.op = "mspace_calloc" /\ mspace_call.ret # 0
  /\ returned[Len(returned)].size < returned[Len(returned)].requested


\* mspace_memalign with alignment 0 wrote a header before address 0,
\* returned NULL and moved static_offset
NullBlockReturned ==
  /\ mspace_call.op = "mspace_memalign" /\ ~ mspace_call.failed
  /\ mspace_call.ret = 0 /\ mspace_call.after # mspace_call.before

====
